---------------------------- MODULE Spec2Model ----------------------------
(***************************************************************************)
(* A model of the recalculation engine of anki-morphs                      *)
(* (src/ankimorphs/recalc.py): the scorer, the tag updater, and the run    *)
(* that validates the configuration, rebuilds the morph cache, scores and  *)
(* tags the new cards, balances the offsets and commits the changes.       *)
(*                                                                         *)
(* The module also models the Chinese segmentation adapter                 *)
(* (src/ankimorphs/jieba_wrapper.py).                                      *)
(*                                                                         *)
(* Seven specifications share the module:                                  *)
(*   SpecScorer     applies the scorer to two cards drawn from bounded     *)
(*                  sets;                                                  *)
(*   SpecTags       applies the tag updater twice to a drawn note and      *)
(*                  card;                                                  *)
(*   SpecFrequency  reads a drawn frequency file into a priority table;    *)
(*   SpecLongFrequency  does the same for files of about 50,000 rows;      *)
(*   SpecProgress   walks a long loop iteration by iteration, with the     *)
(*                  user free to cancel between iterations;                *)
(*   SpecJieba      makes morphs of the segments of a drawn expression;    *)
(*   Spec           runs whole recalculations on a small collection.       *)
(***************************************************************************)
EXTENDS Integers, Sequences, FiniteSets, TLC

VARIABLES
    sc,         \* SpecScorer: the scorer's inputs and its results
    tg,         \* SpecTags: the tag updater's inputs and its results
    fq,         \* SpecFrequency: a frequency file and the table read from it
    lp,         \* SpecProgress: a long loop and its cancellation checkpoints
    jb,         \* SpecJieba: a segmented expression and the morphs made of it
    profile,    \* Spec: the settings and the files of the profile folder
    col,        \* Spec: the collection (cards, notes, note type fields)
    am_db,      \* Spec: the tables of ankimorphs.db
    run         \* Spec: what the last recalc run did

vars == <<sc, tg, fq, lp, jb, profile, col, am_db, run>>

recalc_vars == <<profile, col, am_db, run>>

\* the scorer and tag updater specifications leave the collection out
NoCollection == profile = <<>> /\ col = <<>> /\ am_db = <<>> /\ run = <<>>

Min(a, b) == IF a <= b THEN a ELSE b

Range(s) == {s[i] : i \in 1..Len(s)}

(***************************************************************************)
(* Bounds of the model.                                                    *)
(***************************************************************************)
\* the longest morph list of an ordinary card drawn for the scorer
MaxCardMorphs == 2
\* the unknown-morph count of the largest card drawn for the scorer
ManyUnknowns == 4095
\* the longest prior tag list drawn for the tag updater
MaxTags == 3
\* the largest unknown count handed to the tag updater
MaxUnknownCount == 3

(***************************************************************************)
(* Constants of the program.                                               *)
(***************************************************************************)
\* recalc.py:50
_DEFAULT_SCORE == 2047483647
\* recalc.py:718
morph_unknown_penalty == 500000
\* recalc.py:846, CardQueue(-1)
suspended == -1

(***************************************************************************)
(* Morphs.  A Morpheme is a (lemma, inflection) pair with the highest      *)
(* learning interval seen for it; the priority tables are keyed by the     *)
(* string lemma + inflection (recalc.py:686).                              *)
(***************************************************************************)
Morpheme(lemma, inflection, interval) ==
    [lemma |-> lemma, inflection |-> inflection,
     highest_learning_interval |-> interval]

lemma_and_inflection(morph) == morph.lemma \o morph.inflection

(***************************************************************************)
(* The scorer, recalc.py:693-757.                                          *)
(***************************************************************************)
\* mutant: a morph that is absent from the table leaves the score as it is
ScoreStep_AbsentSkipped(score, morph, morph_priority) ==
    IF lemma_and_inflection(morph) \notin DOMAIN morph_priority
    THEN score
    ELSE score + morph_priority[lemma_and_inflection(morph)]

\* recalc.py:738-742: what one iteration does to the running score
ScoreStep(score, morph, morph_priority) ==
    IF lemma_and_inflection(morph) \notin DOMAIN morph_priority
    THEN morph_unknown_penalty - 1
    ELSE score + morph_priority[lemma_and_inflection(morph)]

\* recalc.py:728-742: the loop over card_morphs[lo..hi], in list order,
\* starting from the running score `score`.  The range is walked as its
\* first half followed by its second half, which is the same left-to-right
\* pass and keeps the evaluation depth logarithmic for long lists (the test
\* on `first` only makes the evaluator finish the first half before it
\* starts the second).
RECURSIVE ScoreLoop(_, _, _, _, _)
ScoreLoop(card_morphs, morph_priority, lo, hi, score) ==
    IF lo > hi THEN score
    ELSE IF lo = hi THEN ScoreStep(score, card_morphs[lo], morph_priority)
    ELSE LET mid == (lo + hi) \div 2
             first == ScoreLoop(card_morphs, morph_priority, lo, mid, score)
         IN  IF first \in Int
             THEN ScoreLoop(card_morphs, morph_priority, mid + 1, hi, first)
             ELSE first

\* recalc.py:733-734: the morphs appended to unknown_morphs, in list order
UnknownMorphs(card_morphs) ==
    SelectSeq(card_morphs, LAMBDA m : m.highest_learning_interval = 0)

\* recalc.py:733-736: has_learning_morph after the loop
HasLearningMorph(am_config, card_morphs) ==
    \E i \in 1..Len(card_morphs) :
        /\ card_morphs[i].highest_learning_interval # 0
        /\ card_morphs[i].highest_learning_interval
               < am_config.recalc_interval_for_known

\* mutant: the priority penalty is not capped
CapPriorityPenalty_Uncapped(score) == score

\* recalc.py:748-750
CapPriorityPenalty(score) ==
    IF score >= morph_unknown_penalty THEN morph_unknown_penalty - 1 ELSE score

\* mutant: the final score is not clamped
CapScore_Unclamped(score) == score

\* recalc.py:754-755
CapScore(score) == Min(score, _DEFAULT_SCORE)

\* mutant: the short-circuit is never taken
MovedToTheEnd_Never(am_config, unknown_morphs) == FALSE

\* recalc.py:744-746: the short-circuit for cards without unknown morphs
MovedToTheEnd(am_config, unknown_morphs) ==
    Len(unknown_morphs) = 0 /\ am_config.recalc_move_known_new_cards_to_the_end

ScoreResult(score, unknown_morphs, has_learning_morph) ==
    [score |-> score, unknown_morphs |-> unknown_morphs,
     has_learning_morph |-> has_learning_morph]

\* recalc.py:693-757.  card_morph_map_cache is a function from the cached
\* card ids to their morph lists; a KeyError is a card id outside its domain.
_get_card_score_and_unknowns_and_learning_status(am_config, card_id, card_morph_map_cache, morph_priority) ==
    IF card_id \notin DOMAIN card_morph_map_cache
    THEN ScoreResult(_DEFAULT_SCORE, <<>>, FALSE)
    ELSE LET card_morphs == card_morph_map_cache[card_id]
             unknown_morphs == UnknownMorphs(card_morphs)
             has_learning_morph == HasLearningMorph(am_config, card_morphs)
             score == ScoreLoop(card_morphs, morph_priority,
                                1, Len(card_morphs), 0)
         IN  IF MovedToTheEnd(am_config, unknown_morphs)
             THEN ScoreResult(_DEFAULT_SCORE, unknown_morphs, has_learning_morph)
             ELSE ScoreResult(
                      CapScore(CapPriorityPenalty(score)
                               + Len(unknown_morphs) * morph_unknown_penalty),
                      unknown_morphs, has_learning_morph)

(***************************************************************************)
(* The tag updater, recalc.py:826-878.  note.tags is a list of strings.    *)
(***************************************************************************)
\* list.remove(tag): the list without the first occurrence of tag
ListRemove(tags, tag) ==
    LET i == CHOOSE i \in 1..Len(tags) :
                 tags[i] = tag /\ \A j \in 1..(i - 1) : tags[j] # tag
    IN  SubSeq(tags, 1, i - 1) \o SubSeq(tags, i + 1, Len(tags))

\* recalc.py:875-878
RECURSIVE remove_exclusive_tags(_, _)
remove_exclusive_tags(note_tags, mutually_exclusive_tags) ==
    IF mutually_exclusive_tags = <<>> THEN note_tags
    ELSE LET tag == Head(mutually_exclusive_tags)
         IN  remove_exclusive_tags(
                 IF tag \in Range(note_tags) THEN ListRemove(note_tags, tag)
                 ELSE note_tags,
                 Tail(mutually_exclusive_tags))

\* recalc.py:847-851
MutuallyExclusiveTags(am_config) ==
    <<am_config.tag_ready, am_config.tag_not_ready,
      am_config.tag_known_automatically>>

\* mutant: the other two tags are removed and the tag is appended without
\* looking whether the note already carries it
SetExclusiveTag_Unguarded(am_config, note_tags, tag) ==
    Append(remove_exclusive_tags(note_tags,
               SelectSeq(MutuallyExclusiveTags(am_config), LAMBDA t : t # tag)),
           tag)

\* mutant: the automatic tags are removed and the new tag is not appended
SetExclusiveTag_NotAppended(am_config, note_tags, tag) ==
    IF tag \notin Range(note_tags)
    THEN remove_exclusive_tags(note_tags, MutuallyExclusiveTags(am_config))
    ELSE note_tags

\* recalc.py:866-868 and 870-872: the tag is set unless the note carries it
SetExclusiveTag(am_config, note_tags, tag) ==
    IF tag \notin Range(note_tags)
    THEN Append(remove_exclusive_tags(note_tags, MutuallyExclusiveTags(am_config)),
                tag)
    ELSE note_tags

\* recalc.py:858-864: the tags of a card without unknown morphs
SetKnownAutomatically(am_config, note_tags, has_learning_morphs) ==
    IF am_config.tag_known_automatically \notin Range(note_tags)
    THEN LET stripped ==
                 remove_exclusive_tags(note_tags, MutuallyExclusiveTags(am_config))
         IN  IF ~has_learning_morphs
             THEN Append(stripped, am_config.tag_known_automatically)
             ELSE stripped
    ELSE note_tags

\* recalc.py:856-857: the queue of a card without unknown morphs
SuspendKnown(am_config, card_queue) ==
    IF am_config.recalc_suspend_known_new_cards /\ card_queue # suspended
    THEN suspended
    ELSE card_queue

\* mutant: the unknown count is looked at before the known-manually tag
_update_tags_and_queue_CountFirst(am_config, note_tags, card_queue, unknowns, has_learning_morphs) ==
    IF unknowns = 0
    THEN [tags |-> SetKnownAutomatically(am_config, note_tags, has_learning_morphs),
          queue |-> SuspendKnown(am_config, card_queue)]
    ELSE IF am_config.tag_known_manually \in Range(note_tags)
    THEN [tags |-> remove_exclusive_tags(note_tags, MutuallyExclusiveTags(am_config)),
          queue |-> card_queue]
    ELSE IF unknowns = 1
    THEN [tags |-> SetExclusiveTag(am_config, note_tags, am_config.tag_ready),
          queue |-> card_queue]
    ELSE [tags |-> SetExclusiveTag(am_config, note_tags, am_config.tag_not_ready),
          queue |-> card_queue]

\* recalc.py:826-872: the note's tags and the card's queue after the update
_update_tags_and_queue(am_config, note_tags, card_queue, unknowns, has_learning_morphs) ==
    IF am_config.tag_known_manually \in Range(note_tags)
    THEN [tags |-> remove_exclusive_tags(note_tags, MutuallyExclusiveTags(am_config)),
          queue |-> card_queue]
    ELSE IF unknowns = 0
    THEN [tags |-> SetKnownAutomatically(am_config, note_tags, has_learning_morphs),
          queue |-> SuspendKnown(am_config, card_queue)]
    ELSE IF unknowns = 1
    THEN [tags |-> SetExclusiveTag(am_config, note_tags, am_config.tag_ready),
          queue |-> card_queue]
    ELSE [tags |-> SetExclusiveTag(am_config, note_tags, am_config.tag_not_ready),
          queue |-> card_queue]


(***************************************************************************)
(* SpecScorer: the scorer applied to the two cards of a drawn morph cache. *)
(***************************************************************************)
\* the morphs ordinary cards are drawn from: two unknown morphs, a morph
\* being learnt and a known one
ScorerMorphs ==
    { Morpheme("a", "x", 0), Morpheme("b", "y", 0),
      Morpheme("c", "z", 1), Morpheme("d", "w", 21) }

\* the lists of distinct morphs of length 1..n
RECURSIVE MorphLists(_)
MorphLists(n) ==
    IF n = 0 THEN {<<>>}
    ELSE LET shorter == MorphLists(n - 1)
         IN  shorter \cup
             { Append(l, m) : <<l, m>> \in
                 { p \in shorter \X ScorerMorphs :
                     Len(p[1]) = n - 1 /\ p[2] \notin Range(p[1]) } }

OrdinaryCards == MorphLists(MaxCardMorphs) \ {<<>>}

\* a card with n unknown morphs, each with a key of its own
ExtremeCard(n) == [i \in 1..n |-> Morpheme("u" \o ToString(i), "", 0)]

ExtremeCards == { ExtremeCard(ManyUnknowns - 1), ExtremeCard(ManyUnknowns) }

ScorerCardIds == {1, 2}

CachesOver(cards) == UNION { [D -> cards] : D \in SUBSET ScorerCardIds }

\* tables over the keys of ScorerMorphs with the best rank, the heaviest
\* rank below one unknown-morph penalty, or no rank at all
OrdinaryTables ==
    UNION { [D -> {0, morph_unknown_penalty - 1}] :
              D \in SUBSET { lemma_and_inflection(m) : m \in ScorerMorphs } }

\* a table with extreme ranks on the morphs that are not unknown (three such
\* ranks still sum below 2^31) and the best ranks on the unknown ones
HeavyTable ==
    [k \in { lemma_and_inflection(m) : m \in ScorerMorphs } |->
        IF k \in { lemma_and_inflection(m) :
                     m \in { u \in ScorerMorphs : u.highest_learning_interval = 0 } }
        THEN 0 ELSE 700000000]

\* the table that ranks every morph of the extreme cards first
ExtremeTable == [k \in { "u" \o ToString(i) : i \in 1..ManyUnknowns } |-> 0]

ScorerConfigs ==
    [recalc_interval_for_known : {1, 21},
     recalc_move_known_new_cards_to_the_end : BOOLEAN]

ScorerInput(am_config, cache, morph_priority) ==
    [am_config |-> am_config, card_morph_map_cache |-> cache,
     morph_priority |-> morph_priority, done |-> FALSE, result |-> <<>>]

InitScorer ==
    /\ tg = <<>>
    /\ fq = <<>>
    /\ lp = <<>>
    /\ jb = <<>>
    /\ NoCollection
    /\ \/ \E am_config \in ScorerConfigs, cache \in CachesOver(OrdinaryCards),
              morph_priority \in OrdinaryTables \cup {HeavyTable} :
              sc = ScorerInput(am_config, cache, morph_priority)
       \/ \E am_config \in ScorerConfigs, cache \in CachesOver(ExtremeCards),
              morph_priority \in {<<>>, ExtremeTable} :
              sc = ScorerInput(am_config, cache, morph_priority)

\* both card ids are scored against the same cache, table and configuration
ScoreCards ==
    /\ ~sc.done
    /\ sc' = [sc EXCEPT
                !.done = TRUE,
                !.result = [card_id \in ScorerCardIds |->
                    _get_card_score_and_unknowns_and_learning_status(
                        sc.am_config, card_id, sc.card_morph_map_cache,
                        sc.morph_priority)]]
    /\ UNCHANGED <<tg, fq, lp, jb, recalc_vars>>

NextScorer == ScoreCards

SpecScorer == InitScorer /\ [][NextScorer]_vars

(***************************************************************************)
(* Claims about the scorer, checked under SpecScorer.                      *)
(***************************************************************************)
\* the number of morphs with learning interval 0 of a cached card, counted
\* on the scorer's input
UnknownCount(card_id) ==
    Cardinality({ i \in 1..Len(sc.card_morph_map_cache[card_id]) :
        sc.card_morph_map_cache[card_id][i].highest_learning_interval = 0 })

Cached(card_id) == card_id \in DOMAIN sc.card_morph_map_cache

\* C1 as stated: of two cached cards with unknown counts k1 > k2 >= 1, the
\* k1 card scores strictly higher, whatever the priority ranks.
C1_StrictlyGreater ==
    sc.done =>
        \A c1, c2 \in ScorerCardIds :
            (Cached(c1) /\ Cached(c2)
             /\ UnknownCount(c1) > UnknownCount(c2) /\ UnknownCount(c2) >= 1)
            => sc.result[c1].score > sc.result[c2].score

\* C1 amended: of two cached cards with unknown counts k1 > k2 >= 1, the k1
\* card never scores lower, and scores strictly higher unless the k2 card's
\* score is already clamped to MAX_SCORE, which takes k2 >= 4094.
C1_GreaterUnlessClamped ==
    sc.done =>
        \A c1, c2 \in ScorerCardIds :
            (Cached(c1) /\ Cached(c2)
             /\ UnknownCount(c1) > UnknownCount(c2) /\ UnknownCount(c2) >= 1)
            => /\ sc.result[c1].score >= sc.result[c2].score
               /\ sc.result[c2].score < _DEFAULT_SCORE
                      => sc.result[c1].score > sc.result[c2].score
               /\ sc.result[c2].score = _DEFAULT_SCORE
                      => UnknownCount(c2) >= 4094

\* C1 witness: card 1 has two unknown morphs of the best rank, card 2 one
\* unknown morph and the heaviest priority penalty, and card 1 still scores
\* higher.
C1_Witness ==
    /\ sc.done /\ Cached(1) /\ Cached(2)
    /\ UnknownCount(1) = 2 /\ UnknownCount(2) = 1
    /\ sc.result[2].score = 2 * morph_unknown_penalty - 1
    /\ sc.result[1].score = 2 * morph_unknown_penalty

\* C2: every returned score is an integer in 0..MAX_SCORE, for cached and
\* uncached cards, extreme unknown counts and extreme priority ranks.
C2_ScoreInRange ==
    sc.done =>
        \A c \in ScorerCardIds : sc.result[c].score \in 0.._DEFAULT_SCORE

\* C2 witness: a card whose unknown morphs alone exceed MAX_SCORE is scored
\* MAX_SCORE.
C2_Witness ==
    /\ sc.done /\ Cached(1)
    /\ UnknownCount(1) * morph_unknown_penalty > _DEFAULT_SCORE
    /\ sc.result[1].score = _DEFAULT_SCORE

\* C3: with move_known_new_cards_to_the_end enabled, a card without a morph
\* of learning interval 0 scores exactly MAX_SCORE, whatever the ranks.
C3_KnownCardsScoreSentinel ==
    sc.done =>
        \A c \in ScorerCardIds :
            (sc.am_config.recalc_move_known_new_cards_to_the_end
             /\ (Cached(c) => UnknownCount(c) = 0))
            => sc.result[c].score = _DEFAULT_SCORE

\* C3 witness: a cached card of two morphs, none unknown, both ranked first,
\* scored MAX_SCORE because the option is enabled.
C3_Witness ==
    /\ sc.done /\ Cached(1)
    /\ sc.am_config.recalc_move_known_new_cards_to_the_end
    /\ Len(sc.card_morph_map_cache[1]) = 2 /\ UnknownCount(1) = 0
    /\ \A i \in 1..2 :
           /\ lemma_and_inflection(sc.card_morph_map_cache[1][i])
                  \in DOMAIN sc.morph_priority
           /\ sc.morph_priority[
                  lemma_and_inflection(sc.card_morph_map_cache[1][i])] = 0
    /\ sc.result[1].score = _DEFAULT_SCORE

(***************************************************************************)
(* SpecTags: the tag updater applied twice in a row, with the same unknown *)
(* count and learning flag, to a drawn tag list and queue.                 *)
(***************************************************************************)
\* the tag literals of the configuration
TagNames ==
    [tag_ready |-> "am-ready", tag_not_ready |-> "am-not-ready",
     tag_known_automatically |-> "am-known-automatically",
     tag_known_manually |-> "am-known-manually"]

AutomaticTags ==
    {TagNames.tag_ready, TagNames.tag_not_ready, TagNames.tag_known_automatically}

\* the tags a prior tag list is drawn from: the four literals and a tag of
\* the user's own
TagPool == AutomaticTags \cup {TagNames.tag_known_manually, "user-tag"}

\* the duplicate-free tag lists of length 0..n (the collection stores a
\* note's tags without duplicates)
RECURSIVE TagLists(_)
TagLists(n) ==
    IF n = 0 THEN {<<>>}
    ELSE LET shorter == TagLists(n - 1)
         IN  shorter \cup
             { Append(p[1], p[2]) : p \in
                 { q \in shorter \X TagPool :
                     Len(q[1]) = n - 1 /\ q[2] \notin Range(q[1]) } }

TagConfigs ==
    { [tag_ready |-> TagNames.tag_ready, tag_not_ready |-> TagNames.tag_not_ready,
       tag_known_automatically |-> TagNames.tag_known_automatically,
       tag_known_manually |-> TagNames.tag_known_manually,
       recalc_suspend_known_new_cards |-> b] : b \in BOOLEAN }

\* new, suspended, buried
Queues == {0, suspended, -2}

InitTags ==
    /\ sc = <<>>
    /\ fq = <<>>
    /\ lp = <<>>
    /\ jb = <<>>
    /\ NoCollection
    /\ \E am_config \in TagConfigs, tags \in TagLists(MaxTags), queue \in Queues,
          unknowns \in 0..MaxUnknownCount, has_learning_morphs \in BOOLEAN :
          tg = [am_config |-> am_config, unknowns |-> unknowns,
                has_learning_morphs |-> has_learning_morphs,
                prior |-> [tags |-> tags, queue |-> queue],
                applied |-> 0,
                once |-> [tags |-> tags, queue |-> queue],
                twice |-> [tags |-> tags, queue |-> queue]]

\* the first update, on the prior tags and queue
ApplyOnce ==
    /\ tg.applied = 0
    /\ LET after == _update_tags_and_queue(tg.am_config, tg.prior.tags,
                        tg.prior.queue, tg.unknowns, tg.has_learning_morphs)
       IN  tg' = [tg EXCEPT !.applied = 1, !.once = after, !.twice = after]
    /\ UNCHANGED <<sc, fq, lp, jb, recalc_vars>>

\* the second update, on what the first one left
ApplyTwice ==
    /\ tg.applied = 1
    /\ tg' = [tg EXCEPT
                !.applied = 2,
                !.twice = _update_tags_and_queue(tg.am_config, tg.once.tags,
                              tg.once.queue, tg.unknowns, tg.has_learning_morphs)]
    /\ UNCHANGED <<sc, fq, lp, jb, recalc_vars>>

NextTags == ApplyOnce \/ ApplyTwice

SpecTags == InitTags /\ [][NextTags]_vars

(***************************************************************************)
(* Claims about the tag updater, checked under SpecTags.                   *)
(***************************************************************************)
NoDuplicates(tags) ==
    \A i, j \in 1..Len(tags) : tags[i] = tags[j] => i = j

AutomaticTagsOn(tags) == Range(tags) \cap AutomaticTags

\* C7: a second update with the same inputs leaves the tag list and the queue
\* as the first update left them, and the list holds no tag twice.
C7_TagUpdaterIdempotent ==
    tg.applied = 2 =>
        /\ tg.twice.tags = tg.once.tags
        /\ tg.twice.queue = tg.once.queue
        /\ NoDuplicates(tg.twice.tags)

\* C7 witness: the first update replaced not-ready by ready and the second
\* one has run.
C7_Witness ==
    /\ tg.applied = 2 /\ tg.unknowns = 1
    /\ TagNames.tag_not_ready \in Range(tg.prior.tags)
    /\ TagNames.tag_ready \notin Range(tg.prior.tags)
    /\ TagNames.tag_ready \in Range(tg.twice.tags)
    /\ TagNames.tag_not_ready \notin Range(tg.twice.tags)

\* C8: with known-manually on the note beforehand, the update leaves exactly
\* the prior tags that are not automatic, in their order (so no tag is added,
\* known-manually and the user's tags stay, no automatic tag stays), and
\* leaves the queue alone, for every unknown count and learning flag.
C8_KnownManuallyFreezes ==
    (tg.applied >= 1 /\ TagNames.tag_known_manually \in Range(tg.prior.tags)) =>
        /\ tg.once.tags =
               SelectSeq(tg.prior.tags, LAMBDA t : t \notin AutomaticTags)
        /\ TagNames.tag_known_manually \in Range(tg.once.tags)
        /\ AutomaticTagsOn(tg.once.tags) = {}
        /\ tg.once.queue = tg.prior.queue

\* C8 witness: a note with known-manually and two automatic tags, a card
\* without unknown morphs, suspension enabled; the automatic tags are gone
\* and the card is not suspended.
C8_Witness ==
    /\ tg.applied >= 1 /\ tg.unknowns = 0
    /\ tg.am_config.recalc_suspend_known_new_cards
    /\ TagNames.tag_known_manually \in Range(tg.prior.tags)
    /\ Cardinality(AutomaticTagsOn(tg.prior.tags)) = 2
    /\ tg.once.tags = <<TagNames.tag_known_manually>>
    /\ tg.prior.queue = 0 /\ tg.once.queue = 0

\* C9 as stated: after the update the note carries at most one automatic
\* tag, whatever the prior tag list.
C9_AtMostOneAutomaticTag ==
    tg.applied >= 1 => Cardinality(AutomaticTagsOn(tg.once.tags)) <= 1


\* C14: when the note did not carry known-manually before the update, it
\* carries ready after an update with unknown count 1, not-ready after one
\* with unknown count 2 or more, and known-automatically after one with
\* unknown count 0 on a card without a learning morph.
C14_TargetTagCarried ==
    (tg.applied >= 1 /\ TagNames.tag_known_manually \notin Range(tg.prior.tags)) =>
        /\ tg.unknowns = 1 => TagNames.tag_ready \in Range(tg.once.tags)
        /\ tg.unknowns >= 2 => TagNames.tag_not_ready \in Range(tg.once.tags)
        /\ (tg.unknowns = 0 /\ ~tg.has_learning_morphs) =>
               TagNames.tag_known_automatically \in Range(tg.once.tags)

\* C14 witness: a note tagged ready and with a tag of the user, a card with
\* three unknown morphs; the update replaced ready by not-ready.
C14_Witness ==
    /\ tg.applied >= 1 /\ tg.unknowns = 3
    /\ tg.prior.tags = <<TagNames.tag_ready, "user-tag">>
    /\ tg.once.tags = <<"user-tag", TagNames.tag_not_ready>>

C16_SuspendsOnlyKnownAutomatically ==
    tg.applied >= 1 =>
        /\ tg.once.queue # tg.prior.queue =>
               /\ tg.once.queue = suspended
               /\ tg.am_config.recalc_suspend_known_new_cards
               /\ TagNames.tag_known_automatically \in Range(tg.once.tags)
        /\ (\/ tg.unknowns >= 1
            \/ TagNames.tag_known_manually \in Range(tg.prior.tags)
            \/ ~tg.am_config.recalc_suspend_known_new_cards
            \/ (tg.unknowns = 0 /\ tg.has_learning_morphs))
               => tg.once.queue = tg.prior.queue
        /\ tg.prior.queue = suspended => tg.once.queue = suspended

(***************************************************************************)
(* The recalc run: the data it works on                                    *)
(***************************************************************************)

\* ---- bounds of the runs
MaxRuns == 2                \* recalc runs in one behaviour
MaxDueOffset == 1           \* largest configured recalc_due_offset
MaxMorphsToOffset == 1      \* largest recalc_number_of_morphs_to_offset

\* ---- constants of the program
CARD_TYPE_NEW == 0

learning == 1

progress_step == 1000

EXTRA_FIELD_UNKNOWNS == "am-unknowns"

EXTRA_FIELD_UNKNOWNS_COUNT == "am-unknowns-count"

EXTRA_FIELD_HIGHLIGHTED == "am-highlighted"

EXTRA_FIELD_SCORE == "am-score"

ExtraFields ==
    {EXTRA_FIELD_UNKNOWNS, EXTRA_FIELD_UNKNOWNS_COUNT,
     EXTRA_FIELD_HIGHLIGHTED, EXTRA_FIELD_SCORE}

\* ---- exceptions a run ends with
NoException == [kind |-> "None", arg |-> ""]

DefaultSettingsException == [kind |-> "DefaultSettingsException", arg |-> ""]

MorphemizerNotFoundException(name) ==
    [kind |-> "MorphemizerNotFoundException", arg |-> name]

CancelledOperationException ==
    [kind |-> "CancelledOperationException", arg |-> ""]

FrequencyFileNotFoundException(path) ==
    [kind |-> "FrequencyFileNotFoundException", arg |-> path]

\* ---- the progress dialog: want_cancel() is polled, and answers True from
\* ---- the poll numbered cancel_at on (0: the user never cancels)
Progress(cancel_at) == [polls |-> 0, cancel_at |-> cancel_at, cancelled |-> FALSE]

want_cancel(progress) ==
    [progress EXCEPT !.polls = @ + 1,
                     !.cancelled = (progress.cancel_at # 0
                                    /\ progress.polls + 1 >= progress.cancel_at)]

\* mutant: the flag is read at every iteration
update_progress_potentially_cancel_EveryIteration(counter, progress) ==
    want_cancel(progress)

\* recalc.py:952-954: the flag is read at the counters that are multiples of
\* progress_step; a progress that ends cancelled has raised
update_progress_potentially_cancel(counter, progress) ==
    IF counter % progress_step = 0 THEN want_cancel(progress) ELSE progress

\* recalc.py:952-963: the call got as far as the progress notification
ProgressNotified(counter, progress) ==
    counter % progress_step = 0 /\ ~progress.cancelled

\* the checkpoints of a loop over amount items, up to the one that raises
RECURSIVE ProgressLoop(_, _, _)
ProgressLoop(counter, amount, progress) ==
    IF counter >= amount \/ progress.cancelled THEN progress
    ELSE ProgressLoop(counter + 1, amount,
                      update_progress_potentially_cancel(counter, progress))

\* ---- morphs and the morphemizer
MorphKey(lemma, inflection) == [lemma |-> lemma, inflection |-> inflection]

\* the morphs in the order in which the tables list them
MorphOrder == <<MorphKey("a", "x"), MorphKey("b", "y"), MorphKey("k", "z")>>

\* the words of an expression and the morph the morphemizer gives for each
Lexicon ==
    [word \in {"ax", "by", "kz"} |->
        CASE word = "ax" -> MorphKey("a", "x")
          [] word = "by" -> MorphKey("b", "y")
          [] word = "kz" -> MorphKey("k", "z")]

get_morphemizer_by_name(name) == name = "JiebaMorphemizer"

get_processed_morphemizer_morphs(expression) ==
    [i \in 1..Len(expression) |-> Lexicon[expression[i]]]

\* ---- ankimorphs.db
EmptyDb == [Cards |-> {}, Morphs |-> {}, Card_Morph_Map |-> {}]

\* insert_many_into_morph_table: one row per morph, with the highest interval
insert_many_into_morph_table(morph_table_data) ==
    {row \in morph_table_data :
        \A other \in morph_table_data :
            (other.lemma = row.lemma /\ other.inflection = row.inflection)
                => other.highest_learning_interval <= row.highest_learning_interval}

\* get_card_morph_map_cache: card id -> the card's morphs with their intervals
MorphRow(db, key) ==
    CHOOSE row \in db.Morphs :
        row.lemma = key.lemma /\ row.inflection = key.inflection

CardMorphKeys(db, card_id) ==
    SelectSeq(MorphOrder, LAMBDA key :
        [card_id |-> card_id, morph_lemma |-> key.lemma,
         morph_inflection |-> key.inflection] \in db.Card_Morph_Map)

get_card_morph_map_cache(db) ==
    [card_id \in {row.card_id : row \in db.Card_Morph_Map} |->
        LET keys == CardMorphKeys(db, card_id)
        IN  [i \in 1..Len(keys) |-> MorphRow(db, keys[i])]]

\* get_am_cards_data_dict: the cached cards of a note type, by card id
RECURSIVE SortedIds(_)
SortedIds(ids) ==
    IF ids = {} THEN <<>>
    ELSE LET first == CHOOSE c \in ids : \A d \in ids : c <= d
         IN  <<first>> \o SortedIds(ids \ {first})

get_am_cards_data_dict(db, note_type_id) ==
    SortedIds({row.card_id : row \in {r \in db.Cards : r.note_type_id = note_type_id}})


(***************************************************************************)
(* The recalc run: validation and the morph cache                          *)
(***************************************************************************)

_abort_if_default_settings_are_used(read_enabled_config_filters, modify_enabled_config_filters) ==
    IF \E i \in DOMAIN read_enabled_config_filters :
           read_enabled_config_filters[i].note_type = ""
    THEN DefaultSettingsException
    ELSE IF \E i \in DOMAIN modify_enabled_config_filters :
                modify_enabled_config_filters[i].note_type = ""
         THEN DefaultSettingsException
         ELSE NoException

_abort_if_selected_morphemizers_not_found(read_enabled_config_filters) ==
    LET not_found == {i \in DOMAIN read_enabled_config_filters :
            ~get_morphemizer_by_name(read_enabled_config_filters[i].morphemizer_name)}
        first == CHOOSE i \in not_found : \A j \in not_found : i <= j
    IN  IF not_found = {} THEN NoException
        ELSE MorphemizerNotFoundException(
                 read_enabled_config_filters[first].morphemizer_name)

\* the cards of the filter's note type, with what the cache builder reads of
\* each of them; morphs is the set the extraction loop stores
create_card_data_dict(collection, am_config, config_filter) ==
    LET ids == {card_id \in DOMAIN collection.cards :
                   collection.notes[collection.cards[card_id].nid].mid
                       = config_filter.note_type_id}
    IN  [card_id \in ids |->
            LET card == collection.cards[card_id]
                note == collection.notes[card.nid]
            IN  [type |-> card.type,
                 interval |-> card.interval,
                 note_id |-> card.nid,
                 automatically_known_tag |->
                     am_config.tag_known_automatically \in Range(note.tags),
                 manually_known_tag |->
                     am_config.tag_known_manually \in Range(note.tags),
                 morphs |-> Range(get_processed_morphemizer_morphs(note.expression))]]

HighestInterval(am_config, card_data) ==
    IF card_data.automatically_known_tag \/ card_data.manually_known_tag
    THEN am_config.recalc_interval_for_known
    ELSE IF card_data.type = learning THEN 1
    ELSE card_data.interval

\* the rows one read filter adds to the three lists
FilterTableData(collection, am_config, config_filter) ==
    LET cards_data_dict == create_card_data_dict(collection, am_config, config_filter)
        ids == DOMAIN cards_data_dict
    IN  [card_table_data |->
            {[card_id |-> card_id,
              note_id |-> cards_data_dict[card_id].note_id,
              note_type_id |-> config_filter.note_type_id,
              card_type |-> cards_data_dict[card_id].type] : card_id \in ids},
         morph_table_data |->
            UNION {{[lemma |-> morph.lemma, inflection |-> morph.inflection,
                     highest_learning_interval |->
                         HighestInterval(am_config, cards_data_dict[card_id])]
                    : morph \in cards_data_dict[card_id].morphs} : card_id \in ids},
         card_morph_map_table_data |->
            UNION {{[card_id |-> card_id, morph_lemma |-> morph.lemma,
                     morph_inflection |-> morph.inflection]
                    : morph \in cards_data_dict[card_id].morphs} : card_id \in ids}]

\* the loop over the read filters: the extraction loop, then the caching loop
RECURSIVE CacheFilters(_, _, _, _, _)
CacheFilters(collection, am_config, filters, i, acc) ==
    IF i > Len(filters) \/ acc.progress.cancelled THEN acc
    ELSE LET data == FilterTableData(collection, am_config, filters[i])
             card_amount == Cardinality(data.card_table_data)
             extracted == ProgressLoop(0, card_amount, acc.progress)
             cached == ProgressLoop(0, card_amount, extracted)
         IN  CacheFilters(collection, am_config, filters, i + 1,
                 [progress |-> cached,
                  card_table_data |-> acc.card_table_data \cup data.card_table_data,
                  morph_table_data |-> acc.morph_table_data \cup data.morph_table_data,
                  card_morph_map_table_data |->
                      acc.card_morph_map_table_data \cup data.card_morph_map_table_data])

\* the rows of a known-morphs file after its header line
KnownMorphRows(am_config, file) ==
    {[lemma |-> file[r][1], inflection |-> file[r][2],
      highest_learning_interval |-> am_config.recalc_interval_for_known]
     : r \in 2..Len(file)}

RECURSIVE ImportFiles(_, _, _, _)
ImportFiles(am_config, input_files, i, acc) ==
    IF i > Len(input_files) THEN acc
    ELSE LET polled == want_cancel(acc.progress)
         IN  IF polled.cancelled
             THEN [acc EXCEPT !.progress = polled]
             ELSE ImportFiles(am_config, input_files, i + 1,
                      [progress |-> polled,
                       morphs_from_files |-> acc.morphs_from_files
                           \cup KnownMorphRows(am_config, input_files[i])])

_get_morphs_from_files(am_config, input_files, progress) ==
    ImportFiles(am_config, input_files, 1,
                [progress |-> progress, morphs_from_files |-> {}])

\* recalc.py:330-336: the three inserts
InsertedTables(filtered, imported) ==
    IF imported.progress.cancelled
    THEN [exception |-> CancelledOperationException, am_db |-> EmptyDb,
          progress |-> imported.progress]
    ELSE [exception |-> NoException,
          am_db |-> [Cards |-> filtered.card_table_data,
                     Morphs |-> insert_many_into_morph_table(
                         filtered.morph_table_data \cup imported.morphs_from_files),
                     Card_Morph_Map |-> filtered.card_morph_map_table_data],
          progress |-> imported.progress]

\* recalc.py:326-336, given what the loop over the read filters collected
ImportedAndInserted(am_config, input_files, filtered) ==
    InsertedTables(filtered,
        IF ~filtered.progress.cancelled /\ am_config.recalc_read_known_morphs_folder
        THEN _get_morphs_from_files(am_config, input_files, filtered.progress)
        ELSE [progress |-> filtered.progress, morphs_from_files |-> {}])

\* recalc.py:183-336: the tables are dropped first and filled last
_cache_anki_data(collection, am_config, read_enabled_config_filters, input_files, progress) ==
    ImportedAndInserted(am_config, input_files,
        CacheFilters(collection, am_config, read_enabled_config_filters, 1,
            [progress |-> progress, card_table_data |-> {},
             morph_table_data |-> {}, card_morph_map_table_data |-> {}]))

(***************************************************************************)
(* The recalc run: priorities, extra fields and the update of one card     *)
(***************************************************************************)

\* get_morph_collection_priority: the cached morphs ranked by the number of
\* cards they occur on, most frequent first
Occurrences(db, key) ==
    Cardinality({row \in db.Card_Morph_Map :
        row.morph_lemma = key.lemma /\ row.morph_inflection = key.inflection})

get_morph_collection_priority(db) ==
    LET cached == {i \in DOMAIN MorphOrder : Occurrences(db, MorphOrder[i]) > 0}
        Before(i, j) ==
            \/ Occurrences(db, MorphOrder[i]) > Occurrences(db, MorphOrder[j])
            \/ Occurrences(db, MorphOrder[i]) = Occurrences(db, MorphOrder[j]) /\ i < j
    IN  [key \in {MorphOrder[i].lemma \o MorphOrder[i].inflection : i \in cached} |->
            LET i == CHOOSE i \in cached :
                         MorphOrder[i].lemma \o MorphOrder[i].inflection = key
            IN  Cardinality({j \in cached : Before(j, i)})]

\* recalc.py:682-687: one row of a frequency file; once the index has
\* passed _DEFAULT_SCORE the loop is left and no later row is read
FrequencyRow(rows, index, morph_priority) ==
    IF index > _DEFAULT_SCORE THEN morph_priority
    ELSE LET key == rows[index + 1][1] \o rows[index + 1][2]
         IN  [k \in DOMAIN morph_priority \cup {key} |->
                 IF k = key THEN index ELSE morph_priority[k]]

\* the rows first..last in file order (the range is split in two so that
\* long files are read without deep recursion; the test on `earlier` only
\* makes the evaluator finish the first half before it starts the second)
RECURSIVE FrequencyRowsBetween(_, _, _, _)
FrequencyRowsBetween(rows, first, last, morph_priority) ==
    IF first > last THEN morph_priority
    ELSE IF first = last THEN FrequencyRow(rows, first, morph_priority)
    ELSE LET middle == (first + last) \div 2
             earlier == FrequencyRowsBetween(rows, first, middle, morph_priority)
         IN  IF DOMAIN earlier # {}
             THEN FrequencyRowsBetween(rows, middle + 1, last, earlier)
             ELSE FrequencyRowsBetween(rows, middle + 1, last, <<>>)

\* the loop over the rows of a frequency file that follow the header line
FrequencyRows(rows, index, morph_priority) ==
    FrequencyRowsBetween(rows, index, Len(rows) - 1, morph_priority)

\* mw.pm.profileFolder() and the directory of the frequency files
profileFolder == "profile"

FREQUENCY_FILES_DIR_NAME == "frequency-files"

\* recalc.py:672-676: os.path.join of the three parts
FrequencyFilePath(frequency_file_name) ==
    profileFolder \o "/" \o FREQUENCY_FILES_DIR_NAME \o "/" \o frequency_file_name

_get_morph_frequency_file_priority(frequency_files, frequency_file_name) ==
    IF frequency_file_name \notin DOMAIN frequency_files
    THEN [exception |->
              FrequencyFileNotFoundException(FrequencyFilePath(frequency_file_name)),
          morph_priority |-> <<>>]
    ELSE LET file == frequency_files[frequency_file_name]
         IN  [exception |-> NoException,
              morph_priority |->
                  FrequencyRows(IF file = <<>> THEN <<>> ELSE Tail(file), 0, <<>>)]

_get_morph_priority(db, frequency_files, am_config_filter) ==
    IF am_config_filter.morph_priority_index = 0
    THEN [exception |-> NoException,
          morph_priority |-> get_morph_collection_priority(db)]
    ELSE _get_morph_frequency_file_priority(frequency_files,
                                            am_config_filter.morph_priority)

\* the field names of the note type after the filter's extra fields are added
_add_extra_fields_to_note_type(config_filter, existing_field_names) ==
    existing_field_names
        \cup (IF config_filter.extra_unknowns THEN {EXTRA_FIELD_UNKNOWNS} ELSE {})
        \cup (IF config_filter.extra_unknowns_count
              THEN {EXTRA_FIELD_UNKNOWNS_COUNT} ELSE {})
        \cup (IF config_filter.extra_highlighted THEN {EXTRA_FIELD_HIGHLIGHTED} ELSE {})
        \cup (IF config_filter.extra_score THEN {EXTRA_FIELD_SCORE} ELSE {})

\* "".join(f"{word}, " ...)[:-2]
RECURSIVE JoinWords(_)
JoinWords(words) ==
    IF words = <<>> THEN ""
    ELSE IF Len(words) = 1 THEN words[1]
    ELSE words[1] \o ", " \o JoinWords(Tail(words))

_update_unknowns_field(am_config, fields, unknowns) ==
    [fields EXCEPT ![EXTRA_FIELD_UNKNOWNS] =
        JoinWords([i \in 1..Len(unknowns) |->
            IF am_config.recalc_unknowns_field_shows_inflections
            THEN unknowns[i].inflection ELSE unknowns[i].lemma])]

_update_unknowns_count_field(fields, unknowns) ==
    [fields EXCEPT ![EXTRA_FIELD_UNKNOWNS_COUNT] = ToString(Len(unknowns))]

_update_score_field(fields, score) ==
    [fields EXCEPT ![EXTRA_FIELD_SCORE] = ToString(score)]

\* text_highlighting.get_highlighted_text: every morph of the card marked
\* with its learning status
get_highlighted_text(am_config, card_morphs) ==
    JoinWords([i \in 1..Len(card_morphs) |->
        card_morphs[i].inflection \o
            (IF card_morphs[i].highest_learning_interval = 0 THEN ":unknown"
             ELSE IF card_morphs[i].highest_learning_interval
                         < am_config.recalc_interval_for_known THEN ":learning"
             ELSE ":known")])

_update_highlighted_field(am_config, fields, card_morph_map_cache, card_id) ==
    IF card_id \notin DOMAIN card_morph_map_cache THEN fields
    ELSE [fields EXCEPT ![EXTRA_FIELD_HIGHLIGHTED] =
             get_highlighted_text(am_config, card_morph_map_cache[card_id])]

\* calc_score.get_card_score_and_unknowns_and_learning_status, the scorer the
\* update loop calls
get_card_score_and_unknowns_and_learning_status(am_config, card_id, card_morph_map_cache, morph_priority) ==
    _get_card_score_and_unknowns_and_learning_status(
        am_config, card_id, card_morph_map_cache, morph_priority)

\* recalc.py:456-465: the extra fields of a new card's note
UnknownsField(am_config, config_filter, fields, unknowns) ==
    IF config_filter.extra_unknowns
    THEN _update_unknowns_field(am_config, fields, unknowns)
    ELSE fields

UnknownsCountField(config_filter, fields, unknowns) ==
    IF config_filter.extra_unknowns_count
    THEN _update_unknowns_count_field(fields, unknowns)
    ELSE fields

ScoreField(config_filter, fields, score) ==
    IF config_filter.extra_score THEN _update_score_field(fields, score) ELSE fields

\* recalc.py:446-465: a new card and its note, given the scorer's result
ScoredCardAndNote(am_config, config_filter, card, note, result) ==
    [card |-> [card EXCEPT
         !.due = result.score,
         !.queue = _update_tags_and_queue(am_config, note.tags, card.queue,
                       Len(result.unknown_morphs), result.has_learning_morph).queue],
     note |-> [note EXCEPT
         !.tags = _update_tags_and_queue(am_config, note.tags, card.queue,
                      Len(result.unknown_morphs), result.has_learning_morph).tags,
         !.fields = ScoreField(config_filter,
                        UnknownsCountField(config_filter,
                            UnknownsField(am_config, config_filter, note.fields,
                                          result.unknown_morphs),
                            result.unknown_morphs),
                        result.score)]]

\* recalc.py:467-475
HighlightedCardAndNote(am_config, config_filter, card_morph_map_cache, card_id, scored) ==
    IF config_filter.extra_highlighted
    THEN [scored EXCEPT !.note.fields =
             _update_highlighted_field(am_config, @, card_morph_map_cache, card_id)]
    ELSE scored

\* mutant: cards of every kind are scored and tagged
UpdatedCardAndNote_AnyKind(am_config, config_filter, card_morph_map_cache, morph_priority, card_id, card, note) ==
    HighlightedCardAndNote(am_config, config_filter, card_morph_map_cache, card_id,
        ScoredCardAndNote(am_config, config_filter, card, note,
            get_card_score_and_unknowns_and_learning_status(
                am_config, card_id, card_morph_map_cache, morph_priority)))

\* recalc.py:425-475: the card and its note as the loop body leaves them
UpdatedCardAndNote(am_config, config_filter, card_morph_map_cache, morph_priority, card_id, card, note) ==
    HighlightedCardAndNote(am_config, config_filter, card_morph_map_cache, card_id,
        IF card.type = CARD_TYPE_NEW
        THEN ScoredCardAndNote(am_config, config_filter, card, note,
                 get_card_score_and_unknowns_and_learning_status(
                     am_config, card_id, card_morph_map_cache, morph_priority))
        ELSE [card |-> card, note |-> note])

(***************************************************************************)
(* The recalc run: the update loop and the offset balancer                 *)
(***************************************************************************)

\* dict[key] = value and del dict[key]
DictSet(dict, key, value) ==
    [k \in DOMAIN dict \cup {key} |-> IF k = key THEN value ELSE dict[k]]

DictDel(dict, key) == [k \in DOMAIN dict \ {key} |-> dict[k]]

\* mutant: a cancellation is swallowed and the run goes on
Raised_CancelSwallowed(exception) ==
    exception \notin {NoException, CancelledOperationException}

\* an exception raised in a phase ends the run there
Raised(exception) == exception # NoException

\* recalc.py:477-484: what the loop body records of a card
HandledCard(acc, card_id, original, original_note, new) ==
    [acc EXCEPT
        !.handled_cards = Append(@, card_id),
        !.modified_cards =
            IF new.card.due # original.due \/ new.card.queue # original.queue
            THEN DictSet(@, card_id, new.card)
            ELSE @,
        !.modified_notes =
            IF original_note.fields # new.note.fields
               \/ original_note.tags # new.note.tags
            THEN Append(@, [id |-> original.nid, card_id |-> card_id,
                            note |-> new.note])
            ELSE @]

\* mutant: no card counts as handled by an earlier filter
AlreadyHandled_Never(acc, card_id) == FALSE

\* recalc.py:421-423: the card was handled by an earlier filter of this run
AlreadyHandled(acc, card_id) == card_id \in Range(acc.handled_cards)

\* recalc.py:414-484: the loop over the cached cards of one modify filter;
\* get_card and card.note() give the card and the note as the collection
\* stores them
RECURSIVE UpdateCards(_, _, _, _, _, _, _)
UpdateCards(collection, am_config, config_filter, card_morph_map_cache, morph_priority, card_ids, acc) ==
    IF card_ids = <<>> THEN acc
    ELSE UpdateCards(collection, am_config, config_filter, card_morph_map_cache,
             morph_priority, Tail(card_ids),
             IF AlreadyHandled(acc, Head(card_ids))
             THEN acc
             ELSE HandledCard(acc, Head(card_ids),
                      collection.cards[Head(card_ids)],
                      collection.notes[collection.cards[Head(card_ids)].nid],
                      UpdatedCardAndNote(am_config, config_filter,
                          card_morph_map_cache, morph_priority, Head(card_ids),
                          collection.cards[Head(card_ids)],
                          collection.notes[collection.cards[Head(card_ids)].nid])))

\* a loop that saw the cancel request has raised
LoopOutcome(looped) ==
    IF looped.progress.cancelled
    THEN [looped EXCEPT !.exception = CancelledOperationException]
    ELSE looped

\* recalc.py:400-412: the note type's fields and the filter's priority table
FilterSetup(db, frequency_files, config_filter, acc) ==
    [acc EXCEPT
        !.models[config_filter.note_type_id] =
            _add_extra_fields_to_note_type(config_filter, @),
        !.exception = _get_morph_priority(db, frequency_files, config_filter).exception]

\* recalc.py:414-419: the checkpoints of the loop over the filter's cards
FilterProgress(db, config_filter, acc) ==
    [acc EXCEPT !.progress =
        ProgressLoop(0, Len(get_am_cards_data_dict(db, config_filter.note_type_id)), @)]

\* recalc.py:398-484: the loop over the modify filters
RECURSIVE UpdateFilters(_, _, _, _, _, _, _)
UpdateFilters(collection, am_config, filters, db, frequency_files, i, acc) ==
    IF i > Len(filters) \/ Raised(acc.exception) THEN acc
    ELSE IF Raised(FilterSetup(db, frequency_files, filters[i], acc).exception)
    THEN FilterSetup(db, frequency_files, filters[i], acc)
    ELSE UpdateFilters(collection, am_config, filters, db, frequency_files, i + 1,
             LoopOutcome(
                 UpdateCards(collection, am_config, filters[i],
                     get_card_morph_map_cache(db),
                     _get_morph_priority(db, frequency_files, filters[i]).morph_priority,
                     get_am_cards_data_dict(db, filters[i].note_type_id),
                     FilterProgress(db, filters[i],
                         FilterSetup(db, frequency_files, filters[i], acc)))))

\* mutant: a card with several unknown morphs counts with its first one
SoleUnknownMorph_FirstUnknown(card_morph_map_cache, card_id) ==
    IF card_id \notin DOMAIN card_morph_map_cache THEN {}
    ELSE LET card_unknown_morphs == UnknownMorphs(card_morph_map_cache[card_id])
         IN  IF card_unknown_morphs # <<>> THEN {card_unknown_morphs[1]} ELSE {}

\* mutant: a card without cached morphs counts as a card with one unknown
\* morph of no name
SoleUnknownMorph_MissCounted(card_morph_map_cache, card_id) ==
    IF card_id \notin DOMAIN card_morph_map_cache THEN {Morpheme("", "", 0)}
    ELSE LET card_unknown_morphs == Range(UnknownMorphs(card_morph_map_cache[card_id]))
         IN  IF Cardinality(card_unknown_morphs) = 1 THEN card_unknown_morphs ELSE {}

\* recalc.py:531-562: the only unknown morph of a handled card, if it has one
SoleUnknownMorph(card_morph_map_cache, card_id) ==
    IF card_id \notin DOMAIN card_morph_map_cache THEN {}
    ELSE LET card_unknown_morphs == Range(UnknownMorphs(card_morph_map_cache[card_id]))
         IN  IF Cardinality(card_unknown_morphs) = 1 THEN card_unknown_morphs ELSE {}

\* recalc.py:524-562: earliest_due_card_for_unknown_morph and cards_with_morph,
\* one entry per unknown morph in the order of insertion; get_card gives the
\* card as the collection stores it
RECURSIVE ScanHandledCards(_, _, _, _)
ScanHandledCards(collection, card_morph_map_cache, handled_cards, entries) ==
    IF handled_cards = <<>> THEN entries
    ELSE LET card_id == Head(handled_cards)
             card == collection.cards[card_id]
             sole == SoleUnknownMorph(card_morph_map_cache, card_id)
             unknown_morph == CHOOSE morph \in sole : TRUE
             seen == {e \in DOMAIN entries : entries[e].unknown_morph = unknown_morph}
             e == CHOOSE e \in seen : TRUE
             entry == entries[e]
         IN  ScanHandledCards(collection, card_morph_map_cache, Tail(handled_cards),
                 IF sole = {} THEN entries
                 ELSE IF seen = {}
                 THEN Append(entries,
                          [unknown_morph |-> unknown_morph, id |-> card_id,
                           due |-> card.due, cards_with_morph |-> {card_id}])
                 ELSE [entries EXCEPT ![e] =
                          [unknown_morph |-> unknown_morph,
                           id |-> IF entry.due > card.due THEN card_id ELSE entry.id,
                           due |-> IF entry.due > card.due THEN card.due ELSE entry.due,
                           cards_with_morph |-> entry.cards_with_morph \cup {card_id}]])

\* sorted(..., key=due): a stable sort
RECURSIVE SortedByDue(_)
SortedByDue(entries) ==
    IF entries = <<>> THEN <<>>
    ELSE LET first == CHOOSE i \in DOMAIN entries :
                          /\ \A j \in DOMAIN entries : entries[i].due <= entries[j].due
                          /\ \A j \in 1..(i - 1) : entries[j].due # entries[i].due
         IN  <<entries[first]>> \o
             SortedByDue(SubSeq(entries, 1, first - 1)
                         \o SubSeq(entries, first + 1, Len(entries)))

\* recalc.py:587-608: the offset of one card that shares its unknown morph
OffsetCard(collection, am_config, card_id, dicts) ==
    LET card == collection.cards[card_id]
        score_and_offset ==
            IF card_id \in DOMAIN dicts.modified_cards
            THEN Min(dicts.modified_cards[card_id].due + am_config.recalc_due_offset,
                     _DEFAULT_SCORE)
            ELSE Min(card.due + am_config.recalc_due_offset, _DEFAULT_SCORE)
    IN  IF card_id \in DOMAIN dicts.modified_cards /\ card.due = score_and_offset
        THEN [dicts EXCEPT !.modified_cards = DictDel(@, card_id)]
        ELSE [dicts EXCEPT !.modified_offset_cards =
                 DictSet(@, card_id, [card EXCEPT !.due = score_and_offset])]

RECURSIVE OffsetCards(_, _, _, _)
OffsetCards(collection, am_config, card_ids, dicts) ==
    IF card_ids = <<>> THEN dicts
    ELSE OffsetCards(collection, am_config, Tail(card_ids),
                     OffsetCard(collection, am_config, Head(card_ids), dicts))

\* mutant: the loop over the morphs has no limit
MorphLimitReached_Never(am_config, counter) == FALSE

\* recalc.py:579-580: the break of the loop over the sorted morphs
MorphLimitReached(am_config, counter) ==
    counter > am_config.recalc_number_of_morphs_to_offset

\* recalc.py:578-608: the morphs up to position recalc_number_of_morphs_to_offset
RECURSIVE OffsetMorphs(_, _, _, _, _)
OffsetMorphs(collection, am_config, entries, counter, dicts) ==
    IF counter >= Len(entries) \/ MorphLimitReached(am_config, counter)
    THEN dicts
    ELSE LET entry == entries[counter + 1]
             all_new_cards_with_morph == entry.cards_with_morph \ {entry.id}
         IN  OffsetMorphs(collection, am_config, entries, counter + 1,
                 OffsetCards(collection, am_config,
                             SortedIds(all_new_cards_with_morph), dicts))


\* mutant: the cards of the scoring phase replace the offset ones
CombinedCards_ScoredKept(dicts) ==
    [card_id \in DOMAIN dicts.modified_cards \cup DOMAIN dicts.modified_offset_cards |->
        IF card_id \in DOMAIN dicts.modified_cards
        THEN dicts.modified_cards[card_id]
        ELSE dicts.modified_offset_cards[card_id]]

\* recalc.py:610-612: modified_cards.update(modified_offset_cards)
CombinedCards(dicts) ==
    [card_id \in DOMAIN dicts.modified_cards \cup DOMAIN dicts.modified_offset_cards |->
        IF card_id \in DOMAIN dicts.modified_offset_cards
        THEN dicts.modified_offset_cards[card_id]
        ELSE dicts.modified_cards[card_id]]

\* recalc.py:571-612, given the sorted entries
OffsetEntries(collection, am_config, modified_cards, entries, progress) ==
    [progress |-> progress,
     exception |-> IF progress.cancelled THEN CancelledOperationException
                   ELSE NoException,
     entries |-> entries,
     modified_cards |->
         CombinedCards(OffsetMorphs(collection, am_config, entries, 0,
             [modified_cards |-> modified_cards, modified_offset_cards |-> <<>>]))]

\* recalc.py:507-612
_add_offsets_to_new_cards(collection, am_config, card_morph_map_cache, modified_cards, handled_cards, progress) ==
    OffsetEntries(collection, am_config, modified_cards,
        SortedByDue(ScanHandledCards(collection, card_morph_map_cache,
                                     handled_cards, <<>>)),
        ProgressLoop(0, Len(handled_cards), progress))

\* mw.col.update_cards and mw.col.update_notes
update_cards(collection, cards) ==
    [collection EXCEPT !.cards =
        [card_id \in DOMAIN @ |->
            IF card_id \in DOMAIN cards THEN cards[card_id] ELSE @[card_id]]]

RECURSIVE update_notes(_, _)
update_notes(collection, notes) ==
    IF notes = <<>> THEN collection
    ELSE update_notes([collection EXCEPT !.notes[Head(notes).id] = Head(notes).note],
                      Tail(notes))

\* a run that raised: nothing is passed to update_cards and update_notes
Aborted(exception, collection, db, progress, updated) ==
    [exception |-> exception, col |-> collection, am_db |-> db, updated |-> FALSE,
     update_cards |-> <<>>, update_notes |-> <<>>,
     handled_cards |-> updated.handled_cards,
     scored_cards |-> updated.modified_cards, entries |-> <<>>,
     progress |-> progress]

NothingUpdated == [handled_cards |-> <<>>, modified_cards |-> <<>>]

\* recalc.py:496-504: the two writes that end a run
Committed(collection, db, updated, balanced) ==
    IF Raised(balanced.exception)
    THEN Aborted(balanced.exception, collection, db, balanced.progress, updated)
    ELSE [exception |-> IF updated.exception # NoException THEN updated.exception
                        ELSE balanced.exception,
          col |-> update_notes(update_cards(collection, balanced.modified_cards),
                               updated.modified_notes),
          am_db |-> db,
          updated |-> TRUE,
          update_cards |-> balanced.modified_cards,
          update_notes |-> updated.modified_notes,
          handled_cards |-> updated.handled_cards,
          scored_cards |-> updated.modified_cards,
          entries |-> balanced.entries,
          progress |-> balanced.progress]

\* recalc.py:486-504: the balancer, if it is switched on, and the writes
Balanced(collection, am_config, db, updated) ==
    IF Raised(updated.exception)
    THEN Aborted(updated.exception, [collection EXCEPT !.models = updated.models],
                 db, updated.progress, NothingUpdated)
    ELSE Committed([collection EXCEPT !.models = updated.models], db, updated,
             IF am_config.recalc_offset_new_cards
             THEN _add_offsets_to_new_cards(collection, am_config,
                      get_card_morph_map_cache(db), updated.modified_cards,
                      updated.handled_cards, updated.progress)
             ELSE [progress |-> updated.progress, exception |-> NoException,
                   entries |-> <<>>, modified_cards |-> updated.modified_cards])

\* recalc.py:380-504
_update_cards_and_notes(collection, am_config, modify_enabled_config_filters, db, frequency_files, progress) ==
    Balanced(collection, am_config, db,
        UpdateFilters(collection, am_config, modify_enabled_config_filters,
            db, frequency_files, 1,
            [models |-> collection.models, progress |-> progress,
             exception |-> NoException, handled_cards |-> <<>>,
             modified_cards |-> <<>>, modified_notes |-> <<>>]))

\* recalc.py:152-155: the two validations, the first that raises
Validated(prof) ==
    IF Raised(_abort_if_default_settings_are_used(
                  prof.read_enabled_config_filters,
                  prof.modify_enabled_config_filters))
    THEN DefaultSettingsException
    ELSE _abort_if_selected_morphemizers_not_found(prof.read_enabled_config_filters)

\* recalc.py:157-158, given what _cache_anki_data returned
UpdatedAfterCache(prof, collection, cached) ==
    IF Raised(cached.exception)
    THEN Aborted(cached.exception, collection, cached.am_db, cached.progress,
                 NothingUpdated)
    ELSE _update_cards_and_notes(collection, prof.am_config,
             prof.modify_enabled_config_filters, cached.am_db,
             prof.frequency_files, cached.progress)

\* the mutant's validation, once the cache is rebuilt
ValidatedAfterCache(prof, collection, cached) ==
    IF Raised(cached.exception) \/ ~Raised(Validated(prof))
    THEN UpdatedAfterCache(prof, collection, cached)
    ELSE Aborted(Validated(prof), collection, cached.am_db, cached.progress,
                 NothingUpdated)

\* mutant: the morph cache is rebuilt before the settings are validated
_recalc_background_op_CacheFirst(prof, collection, db, progress) ==
    ValidatedAfterCache(prof, collection,
        _cache_anki_data(collection, prof.am_config,
            prof.read_enabled_config_filters, prof.known_morphs_files, progress))

\* recalc.py:138-158
_recalc_background_op(prof, collection, db, progress) ==
    IF Raised(Validated(prof))
    THEN Aborted(Validated(prof), collection, db, progress, NothingUpdated)
    ELSE UpdatedAfterCache(prof, collection,
             _cache_anki_data(collection, prof.am_config,
                 prof.read_enabled_config_filters, prof.known_morphs_files,
                 progress))

(***************************************************************************)
(* Spec: recalc runs on a collection of three or four cards and two notes. *)
(***************************************************************************)
TheNoteType == 1

NoNoteType == 0

ConfigFilter(note_type, morphemizer_name, morph_priority_index, morph_priority, extra) ==
    [note_type |-> note_type,
     note_type_id |-> IF note_type = "" THEN NoNoteType ELSE TheNoteType,
     morphemizer_name |-> morphemizer_name,
     morph_priority_index |-> morph_priority_index,
     morph_priority |-> morph_priority,
     extra_unknowns |-> extra, extra_unknowns_count |-> extra,
     extra_highlighted |-> extra, extra_score |-> extra]

BasicFilter == ConfigFilter("Basic", "JiebaMorphemizer", 1, "frequency.csv", TRUE)

PlainFilter == ConfigFilter("Basic", "JiebaMorphemizer", 0, "", FALSE)

\* the filter lists of a profile: <<read-enabled filters, modify-enabled filters>>
OneFilter == <<<<BasicFilter>>, <<BasicFilter>>>>

TwoFilters == <<<<PlainFilter, BasicFilter>>, <<PlainFilter, BasicFilter>>>>

InvalidFilterLists ==
    { <<<<ConfigFilter("", "JiebaMorphemizer", 0, "", FALSE)>>, <<>>>>,
      <<<<BasicFilter>>, <<ConfigFilter("", "JiebaMorphemizer", 0, "", FALSE)>>>>,
      <<<<BasicFilter, ConfigFilter("Basic", "MecabMorphemizer", 0, "", FALSE)>>,
        <<BasicFilter>>>>,
      <<<<ConfigFilter("Basic", "SpacyMorphemizer", 0, "", FALSE),
          ConfigFilter("", "MecabMorphemizer", 0, "", FALSE)>>, <<>>>>,
      <<<<BasicFilter>>,
        <<ConfigFilter("Basic", "JiebaMorphemizer", 1, "missing.csv", TRUE)>>>> }

AmConfig(offset, due_offset, morphs_to_offset, suspend, move_known, read_known) ==
    [tag_ready |-> TagNames.tag_ready, tag_not_ready |-> TagNames.tag_not_ready,
     tag_known_automatically |-> TagNames.tag_known_automatically,
     tag_known_manually |-> TagNames.tag_known_manually,
     recalc_interval_for_known |-> 21,
     recalc_unknowns_field_shows_inflections |-> FALSE,
     recalc_offset_new_cards |-> offset,
     recalc_due_offset |-> due_offset,
     recalc_number_of_morphs_to_offset |-> morphs_to_offset,
     recalc_suspend_known_new_cards |-> suspend,
     recalc_move_known_new_cards_to_the_end |-> move_known,
     recalc_read_known_morphs_folder |-> read_known]

\* the offset balancer on, with every offset and every morph limit
OffsetConfigs ==
    { AmConfig(TRUE, due_offset, morphs_to_offset, FALSE, FALSE, TRUE) :
        due_offset \in 0..MaxDueOffset, morphs_to_offset \in 0..MaxMorphsToOffset }

\* the offset balancer off, with every combination of the other switches
SwitchConfigs ==
    { AmConfig(FALSE, 0, 0, suspend, move_known, read_known) :
        suspend \in BOOLEAN, move_known \in BOOLEAN, read_known \in BOOLEAN }

KnownMorphsFiles == << <<<<"lemma", "inflection">>, <<"k", "z">>>> >>

FrequencyFiles ==
    [name \in {"frequency.csv"} |->
        <<<<"lemma", "inflection">>, <<"a", "x">>, <<"b", "y">>, <<"k", "z">>>>]

Profile(am_config, filter_lists) ==
    [am_config |-> am_config,
     read_enabled_config_filters |-> filter_lists[1],
     modify_enabled_config_filters |-> filter_lists[2],
     known_morphs_files |-> KnownMorphsFiles,
     frequency_files |-> FrequencyFiles]

\* the offset balancer and the suspension of known new cards both on
SuspendAndOffsetConfig == AmConfig(TRUE, 1, 1, TRUE, FALSE, TRUE)

Profiles ==
    { Profile(am_config, OneFilter) :
        am_config \in OffsetConfigs \cup SwitchConfigs \cup {SuspendAndOffsetConfig} }
    \cup { Profile(AmConfig(TRUE, 1, 1, FALSE, FALSE, TRUE), filter_lists) :
              filter_lists \in {TwoFilters} \cup InvalidFilterLists }

CardIds == {1, 2, 3, 4}

NoteIds == {1, 2}

NoteOfCard == <<1, 2, 2, 1>>

\* the expressions of note 1 and of note 2
FirstExpressions == { <<"ax">>, <<"ax", "kz">>, <<"kz", "kz">> }

SecondExpressions == { <<>>, <<"ax">>, <<"ax", "by">>, <<"by", "kz">> }

\* card 1 is new, in learning or a mature review card; cards 2 and 3 are new
CardStates == { [type |-> CARD_TYPE_NEW, interval |-> 0, queue |-> 0],
                [type |-> learning, interval |-> 0, queue |-> 1],
                [type |-> 2, interval |-> 30, queue |-> 2] }

NewCard(due, nid) ==
    [type |-> CARD_TYPE_NEW, interval |-> 0, queue |-> 0, due |-> due, nid |-> nid]

NewNote(expression, tags) ==
    [mid |-> TheNoteType, expression |-> expression, tags |-> tags,
     fields |-> [name \in ExtraFields |-> ""]]

Collection(state, due, first, second, tags) ==
    [cards |-> <<state @@ [due |-> 5, nid |-> NoteOfCard[1]],
                 NewCard(due, NoteOfCard[2]), NewCard(7, NoteOfCard[3])>>,
     notes |-> <<NewNote(first, tags), NewNote(second, <<>>)>>,
     models |-> [mid \in {TheNoteType} |-> {}]]

\* a second new card on note 1, so that two morphs can each be the sole
\* unknown morph of two cards
FourCards(due, first, second) ==
    [Collection(NewCard(5, NoteOfCard[1]), due, first, second, <<>>) EXCEPT
        !.cards = Append(@, NewCard(9, NoteOfCard[4]))]

\* a mature review card, as card 1 or as card 4 of note 1
ReviewCard(due, nid) ==
    [type |-> 2, interval |-> 30, queue |-> 2, due |-> due, nid |-> nid]

\* note 1 with a new card and a review card
MixedNoteCollections ==
    { [FourCards(3, <<"ax">>, <<"by", "kz">>) EXCEPT
          !.cards[1] = ReviewCard(5, NoteOfCard[1])],
      [FourCards(3, <<"ax">>, <<"by", "kz">>) EXCEPT
          !.cards[4] = ReviewCard(9, NoteOfCard[4])] }

FourCardCollections ==
    { FourCards(due, <<"ax">>, second) :
        due \in {3, 7}, second \in { <<"by", "kz">>, <<"ax", "by">>, <<>> } }

\* untagged notes with every state of card 1, and a note marked as known
ThreeCardCollections ==
    { Collection(state, due, first, second, <<>>) :
        state \in CardStates, due \in {3, 7},
        first \in FirstExpressions, second \in SecondExpressions }
    \cup { Collection(NewCard(5, 1), 7, first, second, <<TagNames.tag_known_manually>>) :
        first \in FirstExpressions, second \in SecondExpressions }

Collections ==
    ThreeCardCollections \cup FourCardCollections \cup MixedNoteCollections

\* what an earlier session left in ankimorphs.db
StaleDb ==
    [Cards |-> {[card_id |-> 1, note_id |-> 1, note_type_id |-> TheNoteType,
                 card_type |-> CARD_TYPE_NEW]},
     Morphs |-> {Morpheme("a", "x", 0)},
     Card_Morph_Map |-> {[card_id |-> 1, morph_lemma |-> "a",
                          morph_inflection |-> "x"]}]

NoRun ==
    [count |-> 0, previous |-> NoException, exception |-> NoException,
     before |-> <<>>, before_db |-> <<>>, updated |-> FALSE,
     update_cards |-> <<>>, update_notes |-> <<>>, handled_cards |-> <<>>,
     scored_cards |-> <<>>, entries |-> <<>>, polls |-> 0, cancelled |-> FALSE]

Init ==
    /\ sc = <<>>
    /\ tg = <<>>
    /\ fq = <<>>
    /\ lp = <<>>
    /\ jb = <<>>
    /\ profile \in Profiles
    /\ col \in Collections
    /\ am_db \in {EmptyDb, StaleDb}
    /\ run = NoRun

\* the collection, the tables and the record of a run that has ended
Finished(done) ==
    /\ col' = done.col
    /\ am_db' = done.am_db
    /\ run' = [count |-> run.count + 1, previous |-> run.exception,
               exception |-> done.exception,
               before |-> col, before_db |-> am_db,
               updated |-> done.updated,
               update_cards |-> done.update_cards,
               update_notes |-> done.update_notes,
               handled_cards |-> done.handled_cards,
               scored_cards |-> done.scored_cards,
               entries |-> done.entries,
               polls |-> done.progress.polls,
               cancelled |-> done.progress.cancelled]

\* one recalc: the user may cancel at any poll the run makes
Recalc ==
    /\ run.count < MaxRuns
    /\ \E cancel_at \in 0.._recalc_background_op(profile, col, am_db, Progress(0)).progress.polls :
          Finished(_recalc_background_op(profile, col, am_db, Progress(cancel_at)))
    /\ UNCHANGED <<sc, tg, fq, lp, jb, profile>>

Next == Recalc

Spec == Init /\ [][Next]_vars


(***************************************************************************)
(* Claims about the recalc run, checked under Spec.                        *)
(***************************************************************************)
\* the due of a card when the scoring phase of the last run had ended
DueBeforeBalancer(card_id) ==
    IF card_id \in DOMAIN run.scored_cards
    THEN run.scored_cards[card_id].due
    ELSE run.before.cards[card_id].due

\* the entries of the morphs the balancer of the last run processed
ProcessedEntries ==
    {run.entries[i] : i \in {i \in DOMAIN run.entries :
        i <= profile.am_config.recalc_number_of_morphs_to_offset + 1}}

\* the card of an entry that the last run left un-offset
KeptCards(entry) ==
    {card_id \in entry.cards_with_morph :
        \A other \in entry.cards_with_morph \ {card_id} :
            col.cards[other].due =
                Min(DueBeforeBalancer(other) + profile.am_config.recalc_due_offset,
                    _DEFAULT_SCORE)}

\* C4 as stated: for every processed morph that is the sole unknown morph
\* of two or more handled cards, the card with the earliest due before the
\* balancer ran keeps that due, and every other card of the morph ends the
\* run with min(d + offset, MAX_SCORE), d being its due before the balancer.
C4_EarliestKeptOthersOffset ==
    (run.updated /\ profile.am_config.recalc_offset_new_cards) =>
        \A entry \in ProcessedEntries :
            Cardinality(entry.cards_with_morph) >= 2 =>
                \E kept \in entry.cards_with_morph :
                    /\ col.cards[kept].due = DueBeforeBalancer(kept)
                    /\ \A other \in entry.cards_with_morph \ {kept} :
                        /\ DueBeforeBalancer(kept) <= DueBeforeBalancer(other)
                        /\ col.cards[other].due =
                               Min(DueBeforeBalancer(other)
                                       + profile.am_config.recalc_due_offset,
                                   _DEFAULT_SCORE)

\* C5 as stated: a complete run on the state a complete run committed, with
\* the same morph data and settings, changes no card.
C5_SecondRunIsNoOp ==
    (run.count >= 2 /\ run.previous = NoException /\ run.exception = NoException) =>
        /\ \A card_id \in DOMAIN run.update_cards :
               /\ run.update_cards[card_id].due = run.before.cards[card_id].due
               /\ run.update_cards[card_id].queue = run.before.cards[card_id].queue
        /\ \A card_id \in DOMAIN col.cards :
               col.cards[card_id].due = run.before.cards[card_id].due

\* C6: a run that observes a cancellation request ends with
\* CancelledOperationException, calls neither update_cards nor update_notes,
\* and leaves the due and queue of every card and the fields and tags of
\* every note as they were before the run.
C6_CancelledRunCommitsNothing ==
    run.cancelled =>
        /\ run.exception = CancelledOperationException
        /\ ~run.updated
        /\ \A card_id \in DOMAIN col.cards :
               /\ col.cards[card_id].due = run.before.cards[card_id].due
               /\ col.cards[card_id].queue = run.before.cards[card_id].queue
        /\ \A note_id \in NoteIds :
               /\ col.notes[note_id].fields = run.before.notes[note_id].fields
               /\ col.notes[note_id].tags = run.before.notes[note_id].tags

\* a run cancelled at the checkpoint of the offset scan, when the scoring
\* phase had changed cards waiting to be committed
C6_Witness ==
    /\ run.cancelled
    /\ run.exception = CancelledOperationException
    /\ run.handled_cards # <<>>
    /\ DOMAIN run.scored_cards # {}
    /\ col.cards = run.before.cards

AllFilters ==
    Range(profile.read_enabled_config_filters)
        \cup Range(profile.modify_enabled_config_filters)

UnresolvedNames ==
    {config_filter.morphemizer_name :
        config_filter \in {f \in Range(profile.read_enabled_config_filters) :
                              ~get_morphemizer_by_name(f.morphemizer_name)}}

\* C10: a run with an empty note type in a read or modify filter ends with
\* DefaultSettingsException; otherwise a run with an unresolved morphemizer
\* in a read filter ends with MorphemizerNotFoundException carrying such a
\* name; either way the morph cache, the note types, the cards and the
\* notes are as they were before the run.
C10_FailFastValidation ==
    run.count >= 1 =>
        LET empty == \E config_filter \in AllFilters : config_filter.note_type = ""
        IN  /\ empty => run.exception = DefaultSettingsException
            /\ (~empty /\ UnresolvedNames # {}) =>
                   /\ run.exception.kind = "MorphemizerNotFoundException"
                   /\ run.exception.arg \in UnresolvedNames
            /\ (empty \/ UnresolvedNames # {}) =>
                   /\ am_db = run.before_db
                   /\ col = run.before
                   /\ ~run.updated

\* an unresolved morphemizer ends a run that found a filled morph cache
C10_Witness ==
    /\ run.count >= 1
    /\ run.exception = MorphemizerNotFoundException("MecabMorphemizer")
    /\ run.before_db.Cards # {}
    /\ am_db = run.before_db

\* C11 as stated: a run whose modify filter selects a frequency file that
\* does not exist ends with FrequencyFileNotFoundException carrying the
\* attempted path, and the morph cache, the note-type fields, the cards and
\* the notes are as they were before the run.
C11_MissingFrequencyFileWritesNothing ==
    (run.count >= 1 /\ run.exception.kind = "FrequencyFileNotFoundException") =>
        /\ \E config_filter \in Range(profile.modify_enabled_config_filters) :
               /\ config_filter.morph_priority_index # 0
               /\ config_filter.morph_priority \notin DOMAIN profile.frequency_files
               /\ run.exception.arg = FrequencyFilePath(config_filter.morph_priority)
        /\ ~run.updated
        /\ am_db = run.before_db
        /\ col.models = run.before.models
        /\ col.cards = run.before.cards
        /\ col.notes = run.before.notes


(***************************************************************************)
(* SpecFrequency: a frequency file drawn from bounded sets is read into a  *)
(* priority table.                                                         *)
(***************************************************************************)
MaxFrequencyRows == 4       \* data rows of a drawn frequency file

\* the rows a frequency file is made of
HeaderRow == <<"lemma", "inflection">>

\* two morphs whose lemma and inflection differ but concatenate to the same
\* text
SameTextRows == { <<"a", "xk">>, <<"ax", "k">> }

DataRows ==
    {<<MorphOrder[i].lemma, MorphOrder[i].inflection>> : i \in DOMAIN MorphOrder}
    \cup SameTextRows

RECURSIVE RowLists(_)
RowLists(n) ==
    IF n = 0 THEN {<<>>}
    ELSE LET shorter == RowLists(n - 1)
         IN  shorter \cup
             { Append(p[1], p[2]) :
                 p \in { q \in shorter \X DataRows : Len(q[1]) = n - 1 } }

\* a file without any line, and files with a header line and data rows
DrawnFrequencyFiles ==
    {<<>>} \cup { <<HeaderRow>> \o rows : rows \in RowLists(MaxFrequencyRows) }

InitFrequency ==
    /\ sc = <<>>
    /\ tg = <<>>
    /\ lp = <<>>
    /\ jb = <<>>
    /\ NoCollection
    /\ \E file \in DrawnFrequencyFiles, name \in {"frequency.csv", "missing.csv"} :
          fq = [frequency_files |-> [n \in {"frequency.csv"} |-> file],
                frequency_file_name |-> name,
                read |-> FALSE,
                result |-> [exception |-> NoException, morph_priority |-> <<>>]]

ReadFrequencyFile ==
    /\ ~fq.read
    /\ fq' = [fq EXCEPT
                !.read = TRUE,
                !.result = _get_morph_frequency_file_priority(
                               fq.frequency_files, fq.frequency_file_name)]
    /\ UNCHANGED <<sc, tg, lp, jb, recalc_vars>>

NextFrequency == ReadFrequencyFile

SpecFrequency == InitFrequency /\ [][NextFrequency]_vars

(***************************************************************************)
(* Claims about the frequency file, checked under SpecFrequency.           *)
(***************************************************************************)
\* the data rows of the file that was read
FileDataRows ==
    LET file == fq.frequency_files[fq.frequency_file_name]
    IN  IF file = <<>> THEN <<>> ELSE Tail(file)

RowKey(row) == row[1] \o row[2]

\* C12 as stated: the table read from a file ranks exactly the morphs of the
\* data rows, never the header row, and the rank of a morph is the
\* zero-based index among the data rows of the first row that holds it,
\* so a later duplicate row does not change it.
C12_RankIsFirstRow ==
    (fq.read /\ fq.result.exception = NoException) =>
        LET rows == FileDataRows
            table == fq.result.morph_priority
        IN  /\ DOMAIN table = {RowKey(rows[i]) : i \in DOMAIN rows}
            /\ RowKey(HeaderRow) \notin DOMAIN table
            /\ \A i \in DOMAIN rows :
                   (\A j \in 1..(i - 1) : RowKey(rows[j]) # RowKey(rows[i]))
                       => table[RowKey(rows[i])] = i - 1


(***************************************************************************)
(* Claims about what a run commits, checked under Spec.                    *)
(***************************************************************************)
\* C13 as stated: every card a run passes to update_cards has a due or a
\* queue that differs from the persisted one, the cards the offset
\* balancer put in the batch included, and every note passed to
\* update_notes has fields or tags that differ from the persisted ones.
C13_OnlyChangedCardsAndNotesCommitted ==
    run.updated =>
        /\ \A card_id \in DOMAIN run.update_cards :
               \/ run.update_cards[card_id].due # run.before.cards[card_id].due
               \/ run.update_cards[card_id].queue # run.before.cards[card_id].queue
        /\ \A i \in DOMAIN run.update_notes :
               \/ run.update_notes[i].note.fields
                      # run.before.notes[run.update_notes[i].id].fields
               \/ run.update_notes[i].note.tags
                      # run.before.notes[run.update_notes[i].id].tags


(***************************************************************************)
(* Claims about the offset balancer, checked under Spec.                   *)
(***************************************************************************)
\* the position of a card in the order in which the last run handled them
HandledPosition(card_id) ==
    CHOOSE i \in DOMAIN run.handled_cards : run.handled_cards[i] = card_id

\* C17 as stated: for every processed morph, the card the balancer leaves
\* un-offset has the smallest due among the cards that share the morph as
\* their sole unknown, the due being the one the scoring phase of this run
\* computed, and among cards with equal due it is the first one handled.
C17_KeptCardHasSmallestScoredDue ==
    (run.updated /\ profile.am_config.recalc_offset_new_cards) =>
        \A entry \in ProcessedEntries :
            \A other \in entry.cards_with_morph \ {entry.id} :
                \/ DueBeforeBalancer(entry.id) < DueBeforeBalancer(other)
                \/ /\ DueBeforeBalancer(entry.id) = DueBeforeBalancer(other)
                   /\ HandledPosition(entry.id) < HandledPosition(other)

\* the number of morphs with learning interval 0 among the morphs the cache
\* built by the last run holds for a card
CachedUnknownCount(card_id) ==
    LET card_morphs == get_card_morph_map_cache(am_db)[card_id]
    IN  Cardinality({i \in DOMAIN card_morphs :
                        card_morphs[i].highest_learning_interval = 0})

\* a handled card the balancer must leave alone
ExemptFromOffset(card_id) ==
    \/ card_id \notin DOMAIN get_card_morph_map_cache(am_db)
    \/ CachedUnknownCount(card_id) # 1

\* C18: with the balancer switched on, a handled card without a morph-cache
\* entry, or with zero or two or more cached morphs of learning interval 0,
\* is in the committed batch exactly if the scoring phase put it there, as
\* the card the scoring phase produced, and ends the run with the due the
\* scoring phase gave it.
C18_ExemptCardsKeepScoredEntry ==
    (run.updated /\ profile.am_config.recalc_offset_new_cards) =>
        \A card_id \in Range(run.handled_cards) :
            ExemptFromOffset(card_id) =>
                /\ card_id \in DOMAIN run.update_cards
                       <=> card_id \in DOMAIN run.scored_cards
                /\ card_id \in DOMAIN run.update_cards =>
                       run.update_cards[card_id] = run.scored_cards[card_id]
                /\ col.cards[card_id].due = DueBeforeBalancer(card_id)

\* C18 witness: cards 2 and 3 have two unknown morphs and keep the due that
\* scoring gave them, in a run whose balancer offset card 4, which shares
\* its sole unknown morph with card 1.
C18_Witness ==
    /\ run.updated /\ profile.am_config.recalc_offset_new_cards
    /\ profile.am_config.recalc_due_offset = 1
    /\ DOMAIN col.cards = {1, 2, 3, 4}
    /\ run.handled_cards = <<1, 2, 3, 4>>
    /\ {2, 3} \subseteq DOMAIN get_card_morph_map_cache(am_db)
    /\ CachedUnknownCount(2) = 2 /\ CachedUnknownCount(3) = 2
    /\ 2 \in DOMAIN run.scored_cards
    /\ col.cards[2].due = run.scored_cards[2].due
    /\ col.cards[4].due = DueBeforeBalancer(4) + 1

\* the entries of the morphs beyond the limit of the last run's balancer
EntriesBeyondLimit ==
    {run.entries[i] : i \in {i \in DOMAIN run.entries :
        i > profile.am_config.recalc_number_of_morphs_to_offset + 1}}

\* C19: the entries are in ascending order of the due of their earliest-due
\* card (the due the balancer read); the sibling cards of the first N+1
\* entries end the run with min(d + offset, MAX_SCORE), d being their due
\* after scoring, and the sibling cards of every later entry end the run
\* with d itself, N being recalc_number_of_morphs_to_offset.
C19_OnlyFirstMorphsOffset ==
    (run.updated /\ profile.am_config.recalc_offset_new_cards) =>
        /\ \A i, j \in DOMAIN run.entries :
               i < j => run.entries[i].due <= run.entries[j].due
        /\ \A entry \in ProcessedEntries :
               \A card_id \in entry.cards_with_morph \ {entry.id} :
                   col.cards[card_id].due =
                       Min(DueBeforeBalancer(card_id)
                               + profile.am_config.recalc_due_offset,
                           _DEFAULT_SCORE)
        /\ \A entry \in EntriesBeyondLimit :
               \A card_id \in entry.cards_with_morph :
                   col.cards[card_id].due = DueBeforeBalancer(card_id)

\* C19 witness: limit 0 and two morphs that are each the sole unknown morph
\* of two cards; the sibling of the first morph is offset by 1, the sibling
\* of the second morph keeps the due scoring gave it.
C19_Witness ==
    /\ run.updated /\ profile.am_config.recalc_offset_new_cards
    /\ profile.am_config.recalc_number_of_morphs_to_offset = 0
    /\ profile.am_config.recalc_due_offset = 1
    /\ Len(run.entries) = 2
    /\ \A i \in {1, 2} : Cardinality(run.entries[i].cards_with_morph) = 2
    /\ \E card_id \in run.entries[1].cards_with_morph \ {run.entries[1].id} :
           col.cards[card_id].due = DueBeforeBalancer(card_id) + 1
    /\ \E card_id \in run.entries[2].cards_with_morph \ {run.entries[2].id} :
           /\ card_id \in DOMAIN run.scored_cards
           /\ col.cards[card_id].due = run.scored_cards[card_id].due

(***************************************************************************)
(* Claims about the stores a cancelled run leaves, checked under Spec.     *)
(***************************************************************************)
\* C20 as stated: after a run that was cancelled at any checkpoint, the
\* card, morph and card-morph map tables of the morph cache and the field
\* lists of the note types hold what they held before the run.
C20_CancelledRunWritesNoStore ==
    run.cancelled =>
        /\ am_db.Cards = run.before_db.Cards
        /\ am_db.Morphs = run.before_db.Morphs
        /\ am_db.Card_Morph_Map = run.before_db.Card_Morph_Map
        /\ col.models = run.before.models


(***************************************************************************)
(* Claims about the update loop, checked under Spec.                       *)
(***************************************************************************)
\* the first modify filter, in configuration order, whose cached cards
\* include the card
FirstFilterWith(card_id) ==
    LET filters == profile.modify_enabled_config_filters
        having == {i \in DOMAIN filters :
            card_id \in Range(get_am_cards_data_dict(am_db, filters[i].note_type_id))}
    IN  filters[CHOOSE i \in having : \A j \in having : i <= j]

\* the card and the note a filter computes from what the collection held
\* before the last run
ComputedBy(config_filter, card_id) ==
    UpdatedCardAndNote(profile.am_config, config_filter,
        get_card_morph_map_cache(am_db),
        _get_morph_priority(am_db, profile.frequency_files, config_filter).morph_priority,
        card_id, run.before.cards[card_id],
        run.before.notes[run.before.cards[card_id].nid])

\* C21: in a complete run every card is handled once; the card the scoring
\* phase keeps for it, and the copy of its note in the commit set, are the
\* ones the first modify filter holding the card computes, and the commit
\* set holds no other copy of the note for that card.
C21_FirstFilterWins ==
    run.updated =>
        /\ \A i, j \in DOMAIN run.handled_cards :
               run.handled_cards[i] = run.handled_cards[j] => i = j
        /\ \A card_id \in DOMAIN run.scored_cards :
               run.scored_cards[card_id] =
                   ComputedBy(FirstFilterWith(card_id), card_id).card
        /\ \A i \in DOMAIN run.update_notes :
               /\ run.update_notes[i].note =
                      ComputedBy(FirstFilterWith(run.update_notes[i].card_id),
                                 run.update_notes[i].card_id).note
               /\ \A j \in DOMAIN run.update_notes :
                      run.update_notes[j].card_id = run.update_notes[i].card_id
                          => i = j

\* C21 witness: two modify filters hold the same three cards; the second
\* one would have given card 1 another due and its note other fields than
\* the ones the run kept.
C21_Witness ==
    /\ run.updated
    /\ Len(profile.modify_enabled_config_filters) = 2
    /\ run.handled_cards = <<1, 2, 3>>
    /\ 1 \in DOMAIN run.scored_cards
    /\ run.scored_cards[1].due
           # ComputedBy(profile.modify_enabled_config_filters[2], 1).card.due
    /\ \E i \in DOMAIN run.update_notes :
           /\ run.update_notes[i].card_id = 1
           /\ run.update_notes[i].note
                  # ComputedBy(profile.modify_enabled_config_filters[2], 1).note

\* the handled cards of the last run whose kind is not new
HandledNonNewCards ==
    {card_id \in Range(run.handled_cards) :
        run.before.cards[card_id].type # CARD_TYPE_NEW}

\* the fields of two copies of a note agree outside the highlighted field
SameButHighlighted(fields, other) ==
    \A name \in DOMAIN fields \ {EXTRA_FIELD_HIGHLIGHTED} : fields[name] = other[name]

RowLimit == 50000           \* the "50K" of the comment at recalc.py:683
LongFileSpread == 30        \* the drawn files have RowLimit -+ this many rows

\* the morphs of the long files, in the order their rows repeat
LongFileRows == [i \in DOMAIN MorphOrder |-> <<MorphOrder[i].lemma, MorphOrder[i].inflection>>]

\* a file with a header line and n data rows
LongFrequencyFile(n) ==
    <<HeaderRow>> \o [i \in 1..n |-> LongFileRows[((i - 1) % Len(LongFileRows)) + 1]]

InitLongFrequency ==
    /\ sc = <<>>
    /\ tg = <<>>
    /\ lp = <<>>
    /\ jb = <<>>
    /\ NoCollection
    /\ \E n \in (RowLimit - LongFileSpread)..(RowLimit + LongFileSpread),
          name \in {"frequency.csv", "missing.csv"} :
          fq = [frequency_files |-> [f \in {"frequency.csv"} |-> LongFrequencyFile(n)],
                frequency_file_name |-> name,
                read |-> FALSE,
                result |-> [exception |-> NoException, morph_priority |-> <<>>]]

SpecLongFrequency == InitLongFrequency /\ [][NextFrequency]_vars

(***************************************************************************)
(* Claims about long frequency files, checked under SpecLongFrequency.     *)
(***************************************************************************)
\* C23 as stated: however long the file is, the table read from it holds
\* at most 50,000 entries and no rank above the 50,000 ceiling, because
\* reading stops after 50,000 data rows.
C23_TableStopsAtRowLimit ==
    (fq.read /\ fq.result.exception = NoException) =>
        LET table == fq.result.morph_priority
        IN  /\ Cardinality(DOMAIN table) <= RowLimit
            /\ \A key \in DOMAIN table : table[key] <= RowLimit


(***************************************************************************)
(* Claims about the scorer's formula, checked under SpecScorer.            *)
(***************************************************************************)
\* the sum of the ranks of the morphs lo..hi of a list whose morphs are all
\* in the table
RECURSIVE RankSum(_, _, _, _)
RankSum(card_morphs, morph_priority, lo, hi) ==
    IF lo > hi THEN 0
    ELSE IF lo = hi THEN morph_priority[lemma_and_inflection(card_morphs[lo])]
    ELSE RankSum(card_morphs, morph_priority, lo, (lo + hi) \div 2)
         + RankSum(card_morphs, morph_priority, ((lo + hi) \div 2) + 1, hi)

AbsentFromTable(morph) == lemma_and_inflection(morph) \notin DOMAIN sc.morph_priority

\* the priority penalty P of a cached card, as the claim gives it
PriorityPenalty(card_id) ==
    LET card_morphs == sc.card_morph_map_cache[card_id]
    IN  IF \E i \in 1..Len(card_morphs) : AbsentFromTable(card_morphs[i])
        THEN morph_unknown_penalty - 1
        ELSE Min(RankSum(card_morphs, sc.morph_priority, 1, Len(card_morphs)),
                 morph_unknown_penalty - 1)

\* the card is cached and the scorer did not return the sentinel for a card
\* without unknown morphs
ScoredByFormula(card_id) ==
    /\ Cached(card_id)
    /\ ~(UnknownCount(card_id) = 0 /\ sc.am_config.recalc_move_known_new_cards_to_the_end)

\* C24: for a cached card that is not short-circuited to the sentinel, the
\* score is min(_DEFAULT_SCORE, P + 500,000 * k) with k the number of
\* morphs with learning interval 0 and P = 499,999 if some morph of the
\* card is absent from the priority table, whatever its position, and
\* min(sum of the ranks, 499,999) otherwise; P is below one unknown-morph
\* penalty.
C24_ScoreIsPenaltyPlusUnknowns ==
    sc.done =>
        \A card_id \in ScorerCardIds :
            ScoredByFormula(card_id) =>
                /\ sc.result[card_id].score =
                       Min(_DEFAULT_SCORE,
                           PriorityPenalty(card_id)
                           + morph_unknown_penalty * UnknownCount(card_id))
                /\ PriorityPenalty(card_id) < morph_unknown_penalty

\* a scored card whose first morph is absent from the table and whose
\* second morph has a rank above zero, with one unknown morph
C24_Witness ==
    /\ sc.done
    /\ \E card_id \in ScorerCardIds :
          /\ ScoredByFormula(card_id)
          /\ Len(sc.card_morph_map_cache[card_id]) = 2
          /\ AbsentFromTable(sc.card_morph_map_cache[card_id][1])
          /\ ~AbsentFromTable(sc.card_morph_map_cache[card_id][2])
          /\ sc.morph_priority[lemma_and_inflection(sc.card_morph_map_cache[card_id][2])] > 0
          /\ UnknownCount(card_id) = 1
          /\ sc.result[card_id].score = 2 * morph_unknown_penalty - 1


(***************************************************************************)
(* Claims about cards without cached morphs, checked under Spec.           *)
(***************************************************************************)
\* the handled cards of the last run that have no entry in the morph cache
MissedCards ==
    { card_id \in Range(run.handled_cards) :
        card_id \notin DOMAIN get_card_morph_map_cache(am_db) }

\* the cards the modify filters of the profile hold, read from the cache
\* tables
FilterCards ==
    UNION { Range(get_am_cards_data_dict(am_db, profile.modify_enabled_config_filters[i].note_type_id)) :
              i \in DOMAIN profile.modify_enabled_config_filters }

\* C25: for a handled card without an entry in the morph cache, in a
\* complete run, the scorer returns (_DEFAULT_SCORE, no unknown morphs, no
\* learning morph), so a new card leaves the scoring phase with that due;
\* the copy of the note committed for the card has the highlighted field it
\* had; the offset balancer gives the card no entry and no offset; and the
\* run handles every card of its filters, the ones after the missing card
\* included, and ends without exception.
C25_MissingCardRecoveredLocally ==
    run.updated =>
        \A card_id \in MissedCards :
            /\ \A i \in DOMAIN profile.modify_enabled_config_filters :
                   get_card_score_and_unknowns_and_learning_status(
                       profile.am_config, card_id, get_card_morph_map_cache(am_db),
                       _get_morph_priority(am_db, profile.frequency_files,
                           profile.modify_enabled_config_filters[i]).morph_priority)
                   = ScoreResult(_DEFAULT_SCORE, <<>>, FALSE)
            /\ run.before.cards[card_id].type = CARD_TYPE_NEW
                   => DueBeforeBalancer(card_id) = _DEFAULT_SCORE
            /\ \A i \in DOMAIN run.update_notes :
                   run.update_notes[i].card_id = card_id =>
                       run.update_notes[i].note.fields[EXTRA_FIELD_HIGHLIGHTED]
                           = run.before.notes[run.before.cards[card_id].nid]
                                 .fields[EXTRA_FIELD_HIGHLIGHTED]
            /\ \A e \in DOMAIN run.entries :
                   card_id \notin run.entries[e].cards_with_morph
            /\ col.cards[card_id].due = DueBeforeBalancer(card_id)
            /\ FilterCards \subseteq Range(run.handled_cards)
            /\ run.exception = NoException

\* C25 witness: cards 2 and 3 have no cached morphs; the run went on to
\* card 4, scored it, and the balancer made an entry for the morph cards 1
\* and 4 share while cards 2 and 3 sank to the sentinel.
C25_Witness ==
    /\ run.updated
    /\ run.handled_cards = <<1, 2, 3, 4>>
    /\ MissedCards = {2, 3}
    /\ 4 \in DOMAIN run.scored_cards
    /\ \E e \in DOMAIN run.entries : run.entries[e].cards_with_morph = {1, 4}
    /\ col.cards[2].due = _DEFAULT_SCORE
    /\ col.cards[3].due = _DEFAULT_SCORE


(***************************************************************************)
(* SpecProgress: one long loop (morph extraction, caching, card update or  *)
(* offset scan: each starts its body with the same checkpoint call), taken *)
(* one iteration at a time, with the user free to ask for cancellation     *)
(* between any two iterations.                                             *)
(***************************************************************************)
MaxLoopItems == 2001        \* the longest loop that is walked

LoopAmounts == {0, 1, progress_step + 1, MaxLoopItems}

NoIteration ==
    [counter |-> -1, pending |-> FALSE, read |-> FALSE, raised |-> FALSE,
     notified |-> FALSE, worked |-> FALSE]

InitProgress ==
    /\ sc = <<>>
    /\ tg = <<>>
    /\ fq = <<>>
    /\ jb = <<>>
    /\ NoCollection
    /\ \E amount \in LoopAmounts :
          lp = [amount |-> amount, counter |-> 0, progress |-> Progress(0),
                raised |-> FALSE, read_at |-> {}, last |-> NoIteration]

\* the user clicks 'x': the next poll of want_cancel answers True
RequestCancel ==
    /\ lp.progress.cancel_at = 0
    /\ ~lp.raised
    /\ lp' = [lp EXCEPT !.progress.cancel_at = lp.progress.polls + 1]
    /\ UNCHANGED <<sc, tg, fq, jb, recalc_vars>>

\* what one iteration did, given the progress its checkpoint call returned
Iterated(loop, checked) ==
    [loop EXCEPT
        !.progress = checked,
        !.raised = checked.cancelled,
        !.counter = IF checked.cancelled THEN @ ELSE @ + 1,
        !.read_at = IF checked.polls # loop.progress.polls
                    THEN @ \cup {loop.counter} ELSE @,
        !.last = [counter |-> loop.counter,
                  pending |-> loop.progress.cancel_at # 0,
                  read |-> checked.polls # loop.progress.polls,
                  raised |-> checked.cancelled,
                  notified |-> ProgressNotified(loop.counter, checked),
                  worked |-> ~checked.cancelled]]

\* one iteration of the loop: the checkpoint call, then the body's work
\* unless the call raised
Iterate ==
    /\ lp.counter < lp.amount
    /\ ~lp.raised
    /\ lp' = Iterated(lp, update_progress_potentially_cancel(lp.counter, lp.progress))
    /\ UNCHANGED <<sc, tg, fq, jb, recalc_vars>>

NextProgress == RequestCancel \/ Iterate

SpecProgress == InitProgress /\ [][NextProgress]_vars

(***************************************************************************)
(* Claims about the checkpoints, checked under SpecProgress.               *)
(***************************************************************************)
\* the iterations the loop has entered so far
EnteredIterations ==
    IF lp.raised THEN 0..lp.counter ELSE 0..(lp.counter - 1)

maxunicode == 1114111

\* jieba_wrapper.py:27-46: 0x3007, 0x4E00-0x9FFF, 0x3400-0x4DBF,
\* 0xF900-0xFAFF and, on wide builds, 0x20000-0x2A6DF, 0x2A700-0x2B73F,
\* 0x2B740-0x2B81F, 0x2F800-0x2FA1F
cjk_ideograph_unicode_ranges ==
    << <<12295, 12295>>, <<19968, 40959>>, <<13312, 19903>>, <<63744, 64255>> >>
    \o (IF maxunicode > 65535
        THEN << <<131072, 173791>>, <<173824, 177983>>,
                <<177984, 178207>>, <<194560, 195103>> >>
        ELSE <<>>)

\* mutant: the end of a range is not part of it
char_found_in_cjk_ranges_EndExcluded(_char) ==
    \E i \in DOMAIN cjk_ideograph_unicode_ranges :
        /\ cjk_ideograph_unicode_ranges[i][1] <= _char
        /\ _char < cjk_ideograph_unicode_ranges[i][2]

\* jieba_wrapper.py:92-97
char_found_in_cjk_ranges(_char) ==
    \E i \in DOMAIN cjk_ideograph_unicode_ranges :
        /\ cjk_ideograph_unicode_ranges[i][1] <= _char
        /\ _char <= cjk_ideograph_unicode_ranges[i][2]

\* jieba_wrapper.py:100-104
text_contains_only_cjk_ranges(_text) ==
    \A i \in 1..Len(_text) : char_found_in_cjk_ranges(_text[i])

\* a Morpheme made without a learning interval
NoInterval == "None"

\* jieba_wrapper.py:68-89, given the words posseg.cut yields
RECURSIVE get_morphemes_jieba(_, _)
get_morphemes_jieba(words, expression_morphs) ==
    IF words = <<>> THEN expression_morphs
    ELSE get_morphemes_jieba(Tail(words),
             IF ~text_contains_only_cjk_ranges(Head(words))
             THEN expression_morphs
             ELSE Append(expression_morphs,
                         Morpheme(Head(words), Head(words), NoInterval)))

(***************************************************************************)
(* SpecJieba: the adapter applied to the words of a drawn expression.      *)
(***************************************************************************)
MaxSegments == 2            \* the most words of a drawn expression

\* the code points next to the ends of every range, a latin letter, and the
\* first and the last code point
DrawnCodePoints ==
    UNION { { cjk_ideograph_unicode_ranges[i][1] - 1, cjk_ideograph_unicode_ranges[i][1],
              cjk_ideograph_unicode_ranges[i][2], cjk_ideograph_unicode_ranges[i][2] + 1 } :
            i \in DOMAIN cjk_ideograph_unicode_ranges }
    \cup {0, 97, maxunicode}

\* the characters of the words of two characters: two ideographs, one of
\* them outside the basic plane, a latin letter and a kana
PairCodePoints == {19968, 131072, 97, 12354}

DrawnWords ==
    { <<c>> : c \in DrawnCodePoints }
    \cup { <<c, d>> : c \in PairCodePoints, d \in PairCodePoints }

RECURSIVE WordLists(_)
WordLists(n) ==
    IF n = 0 THEN {<<>>}
    ELSE LET shorter == WordLists(n - 1)
         IN  shorter \cup
             { Append(p[1], p[2]) :
                 p \in { q \in shorter \X DrawnWords : Len(q[1]) = n - 1 } }

InitJieba ==
    /\ sc = <<>>
    /\ tg = <<>>
    /\ fq = <<>>
    /\ lp = <<>>
    /\ NoCollection
    /\ \E words \in WordLists(MaxSegments) :
          jb = [words |-> words, done |-> FALSE, morphs |-> <<>>]

GetMorphemes ==
    /\ ~jb.done
    /\ jb' = [jb EXCEPT !.done = TRUE,
                        !.morphs = get_morphemes_jieba(jb.words, <<>>)]
    /\ UNCHANGED <<sc, tg, fq, lp, recalc_vars>>

NextJieba == GetMorphemes

SpecJieba == InitJieba /\ [][NextJieba]_vars

(***************************************************************************)
(* Claims about the segmentation adapter, checked under SpecJieba.         *)
(***************************************************************************)
\* the code point is an ideograph of one of the listed blocks: the number
\* zero, the unified ideographs and their extensions A to D, the
\* compatibility ideographs and their supplement
ListedIdeograph(c) ==
    \/ c = 12295
    \/ c >= 13312 /\ c <= 19903
    \/ c >= 19968 /\ c <= 40959
    \/ c >= 63744 /\ c <= 64255
    \/ c >= 131072 /\ c <= 173791
    \/ c >= 173824 /\ c <= 177983
    \/ c >= 177984 /\ c <= 178207
    \/ c >= 194560 /\ c <= 195103

OnlyListedIdeographs(word) == \A i \in 1..Len(word) : ListedIdeograph(word[i])

\* C27: get_morphemes_jieba returns, in the order of the segments, one
\* morph for each segment all of whose characters are listed ideographs
\* and none for any other segment, and each morph has the segment's text
\* as its lemma and as its inflection.
C27_OneMorphPerIdeographSegment ==
    jb.done =>
        LET kept == SelectSeq(jb.words, OnlyListedIdeographs)
        IN  /\ Len(jb.morphs) = Len(kept)
            /\ \A i \in 1..Len(kept) :
                   /\ jb.morphs[i].lemma = kept[i]
                   /\ jb.morphs[i].inflection = kept[i]

\* C27 witness: a word with a latin letter is dropped and the last code
\* point of the last listed range is kept as a morph
C27_Witness ==
    /\ jb # <<>>
    /\ jb.done
    /\ jb.words = << <<19968, 97>>, <<195103>> >>
    /\ jb.morphs = << Morpheme(<<195103>>, <<195103>>, NoInterval) >>


(***************************************************************************)
(* Claims about the notes a run commits, checked under Spec.               *)
(***************************************************************************)
\* C28 as stated: the notes passed to update_notes hold each note at most
\* once, also when several handled cards belong to one note, and the
\* collection ends with every update computed for a note: no copy written
\* for one card is overwritten by the copy written for another.
C28_EachNoteCommittedOnce ==
    run.updated =>
        /\ \A i, j \in DOMAIN run.update_notes :
               run.update_notes[i].id = run.update_notes[j].id => i = j
        /\ \A i \in DOMAIN run.update_notes :
               col.notes[run.update_notes[i].id] = run.update_notes[i].note


\* C29 as stated: a new card without an entry in the morph cache gets the
\* sentinel score, but the run neither adds the known-automatically tag to
\* the copy of its note nor moves the card to the suspended queue.
C29_MissingCardNotCountedAsKnown ==
    run.updated =>
        \A card_id \in MissedCards :
            run.before.cards[card_id].type = CARD_TYPE_NEW =>
                /\ DueBeforeBalancer(card_id) = _DEFAULT_SCORE
                /\ \A i \in DOMAIN run.update_notes :
                       (/\ run.update_notes[i].card_id = card_id
                        /\ profile.am_config.tag_known_automatically
                               \notin Range(run.before.notes[run.before.cards[card_id].nid].tags))
                       => profile.am_config.tag_known_automatically
                              \notin Range(run.update_notes[i].note.tags)
                /\ run.before.cards[card_id].queue # suspended
                       => col.cards[card_id].queue # suspended


(***************************************************************************)
(* Claims about the keys of the priority table, checked under              *)
(* SpecFrequency.                                                          *)
(***************************************************************************)
\* the morph a data row names
RowMorph(row) == MorphKey(row[1], row[2])

\* C30 as stated: morphs with different (lemma, inflection) pairs never
\* share a key of the table read from a frequency file: the table has one
\* entry for each morph the file names, and the rank looked up for a morph
\* is the index of a row that names this very morph.
C30_KeysRespectMorphIdentity ==
    (fq.read /\ fq.result.exception = NoException) =>
        LET rows == FileDataRows
            table == fq.result.morph_priority
        IN  /\ Cardinality(DOMAIN table)
                   = Cardinality({ RowMorph(rows[i]) : i \in DOMAIN rows })
            /\ \A i \in DOMAIN rows :
                   /\ lemma_and_inflection(RowMorph(rows[i])) \in DOMAIN table
                   /\ RowMorph(rows[table[lemma_and_inflection(RowMorph(rows[i]))] + 1])
                          = RowMorph(rows[i])


(***************************************************************************)
(* Claims about the completeness of the commit, checked under Spec.        *)
(***************************************************************************)
\* the balancer of the last run offset the card: it shares the sole unknown
\* morph of a processed entry and is not the card the entry keeps
OffsetByBalancer(card_id) ==
    /\ profile.am_config.recalc_offset_new_cards
    /\ \E entry \in ProcessedEntries :
           card_id \in entry.cards_with_morph \ {entry.id}

\* the due the last run computed for a card: the due of the scoring phase,
\* with the offset if the balancer offset the card
ComputedDue(card_id) ==
    IF OffsetByBalancer(card_id)
    THEN Min(DueBeforeBalancer(card_id) + profile.am_config.recalc_due_offset,
             _DEFAULT_SCORE)
    ELSE DueBeforeBalancer(card_id)

\* the queue the scoring phase of the last run left the card in
ComputedQueue(card_id) ==
    IF card_id \in DOMAIN run.scored_cards
    THEN run.scored_cards[card_id].queue
    ELSE run.before.cards[card_id].queue

\* C31: in a complete run every handled card whose computed due (after
\* scoring and offsetting) or computed queue (after the tag updater)
\* differs from the persisted one is in the batch passed to update_cards
\* with exactly the computed due and queue, and the collection ends with
\* them: the balancer replacing or deleting an entry of the commit set
\* loses no due or queue change of the scoring phase.
C31_EveryComputedChangeCommitted ==
    run.updated =>
        \A card_id \in Range(run.handled_cards) :
            /\ (\/ ComputedDue(card_id) # run.before.cards[card_id].due
                \/ ComputedQueue(card_id) # run.before.cards[card_id].queue)
                   => /\ card_id \in DOMAIN run.update_cards
                      /\ run.update_cards[card_id].due = ComputedDue(card_id)
                      /\ run.update_cards[card_id].queue = ComputedQueue(card_id)
            /\ col.cards[card_id].due = ComputedDue(card_id)
            /\ col.cards[card_id].queue = ComputedQueue(card_id)

\* C31 witness: with suspension and balancer both on, the scoring phase
\* suspended one card and changed the due of another, which the balancer
\* then replaced in the commit set by its offset copy; a third card's entry
\* was deleted from the commit set or kept as scored.
C31_Witness ==
    /\ run.updated
    /\ profile.am_config.recalc_offset_new_cards
    /\ profile.am_config.recalc_suspend_known_new_cards
    /\ \E card_id \in DOMAIN run.scored_cards :
           /\ run.before.cards[card_id].queue # suspended
           /\ run.scored_cards[card_id].queue = suspended
           /\ run.update_cards[card_id].queue = suspended
    /\ \E card_id \in DOMAIN run.scored_cards :
           /\ OffsetByBalancer(card_id)
           /\ run.update_cards[card_id].due = run.scored_cards[card_id].due + 1

=============================================================================
